---- MODULE Spec2Model ----
(***************************************************************************)
(* Model of the template rendering engine of mouth: the Mouth service's    *)
(* _generate_content, _generate_sms and _generate_email, as written in     *)
(* src/mouth/__init__.py (version "v1") and src/mouth/service.py (version  *)
(* "v2").                                                                  *)
(*                                                                         *)
(* Text is a sequence of atoms.  An atom is one character ("{", "#", a     *)
(* letter of a name) or an indivisible run of characters that none of the  *)
(* three regular expressions can split (the fixed words of a marker, a     *)
(* keyword of a conditional, a locale code, a numeric literal).            *)
(***************************************************************************)
EXTENDS Integers, Sequences, FiniteSets, TLC

VARIABLES
    ver,        \* which source file runs: "v1" = __init__.py, "v2" = service.py
    store,      \* the Template store: name -> "none" or [locale -> record]
    heap,       \* the dicts allocated as `templates`, by object id
    rnd,        \* per top-level call: its arguments, stack, result
    lookups,    \* per top-level call: names looked up in the store, in order
    gc,         \* the state of the _generate_content harness
    locales,    \* the Locale records: id -> [archived, name]
    declared,   \* the `variables` of each Template record: name -> names
    api,        \* the last request served and its response
    rows,       \* the rows of the content tables: a bag of <<variant, template, locale>>
    inflight    \* the handlers that run step by step: their request and position

vars == <<ver, store, heap, rnd, lookups, gc, locales, declared, api, rows,
          inflight>>

-----------------------------------------------------------------------------
(* Atoms *)

Letters == {"a", "b", "c", "g", "x", "y", "S", "m", "T", "r", "u", "e",
            "F", "l", "s", "N", "o", "n"}

WS == " "
NL == "\n"

Ops == {"==", "<", "<=", ">", ">=", "!="}

Name(str) == <<str>>

-----------------------------------------------------------------------------
(* Python str and re primitives *)

\* length of the run of [A-Za-z_] starting at position i
RECURSIVE LetterRun(_, _)
LetterRun(s, i) ==
    IF i <= Len(s) /\ s[i] \in Letters THEN 1 + LetterRun(s, i + 1) ELSE 0

\* length of the run of [\t ] starting at position i
RECURSIVE WsRun(_, _)
WsRun(s, i) ==
    IF i <= Len(s) /\ s[i] = WS THEN 1 + WsRun(s, i + 1) ELSE 0

\* the elements of a list
Range(q) == {q[i] : i \in 1..Len(q)}

\* re.findall of  open ([A-Za-z_]+) close : the names, in order, with repeats
RECURSIVE FindAllFrom(_, _, _, _)
FindAllFrom(s, i, open, close) ==
    IF i > Len(s) THEN <<>>
    ELSE IF s[i] = open
         THEN LET n == LetterRun(s, i + 1) IN
              IF n >= 1 /\ i + n + 1 <= Len(s) /\ s[i + n + 1] = close
              THEN <<SubSeq(s, i + 1, i + n)>>
                       \o FindAllFrom(s, i + n + 2, open, close)
              ELSE FindAllFrom(s, i + 1, open, close)
         ELSE FindAllFrom(s, i + 1, open, close)

re_data_findall(s) == FindAllFrom(s, 1, "{", "}")

re_tpl_findall(s) == FindAllFrom(s, 1, "#", "#")

StartsAt(s, i, old) ==
    /\ i + Len(old) - 1 <= Len(s)
    /\ SubSeq(s, i, i + Len(old) - 1) = old

\* str.replace(old, new): every non-overlapping occurrence, left to right
RECURSIVE ReplaceFrom(_, _, _, _)
ReplaceFrom(s, i, old, new) ==
    IF i > Len(s) THEN <<>>
    ELSE IF StartsAt(s, i, old)
         THEN new \o ReplaceFrom(s, i + Len(old), old, new)
         ELSE <<s[i]>> \o ReplaceFrom(s, i + 1, old, new)

Replace(s, old, new) == ReplaceFrom(s, 1, old, new)

\* `sub in s`
RECURSIVE ContainsFrom(_, _, _)
ContainsFrom(s, i, sub) ==
    IF i + Len(sub) - 1 > Len(s) THEN FALSE
    ELSE StartsAt(s, i, sub) \/ ContainsFrom(s, i + 1, sub)

Contains(s, sub) == ContainsFrom(s, 1, sub)

\* s.count(sub), non-overlapping
RECURSIVE CountFrom(_, _, _)
CountFrom(s, i, sub) ==
    IF i + Len(sub) - 1 > Len(s) THEN 0
    ELSE IF StartsAt(s, i, sub)
         THEN 1 + CountFrom(s, i + Len(sub), sub)
         ELSE CountFrom(s, i + 1, sub)

Count(s, sub) == CountFrom(s, 1, sub)

-----------------------------------------------------------------------------
(* Values of the variables dict and their Python str() and truth value *)

StrV(s)  == [t |-> "str",  v |-> s]
IntV(n)  == [t |-> "int",  v |-> n]
BoolV(b) == [t |-> "bool", v |-> b]
NoneV    == [t |-> "none", v |-> 0]

str(val) ==
    CASE val.t = "str"  -> val.v
      [] val.t = "int"  -> <<ToString(val.v)>>
      [] val.t = "bool" -> IF val.v THEN <<"T", "r", "u", "e">>
                                    ELSE <<"F", "a", "l", "s", "e">>
      [] val.t = "none" -> <<"N", "o", "n", "e">>

\* the same were every value but None to count as true
TruthyNotNone(val) == val.t # "none"

Truthy(val) ==
    CASE val.t = "str"  -> val.v # <<>>
      [] val.t = "int"  -> val.v # 0
      [] val.t = "bool" -> val.v
      [] val.t = "none" -> FALSE

-----------------------------------------------------------------------------
(* _generate_content: the variable pass *)

VarRef(sVar) == <<"{">> \o sVar \o <<"}">>

\* the text put in place of {sVar} when the and/or expression falls through
MissingVar(v, sVar) ==
    IF v = "v1" THEN <<"!!!", "{">> \o sVar \o <<"}", " does not exist!!!">>
                ELSE <<"!!!", "{">> \o sVar \o <<"}", "!!!">>

\* sVar in variables and str(variables[sVar]) or '!!!{%s} does not exist!!!'
DataValue(v, variables, sVar) ==
    IF sVar \in DOMAIN variables /\ str(variables[sVar]) # <<>>
    THEN str(variables[sVar])
    ELSE MissingVar(v, sVar)

\* for sVar in findall(content): content = content.replace(...)
RECURSIVE SubstituteVars(_, _, _, _)
SubstituteVars(v, content, found, variables) ==
    IF found = <<>> THEN content
    ELSE SubstituteVars(v,
             Replace(content, VarRef(Head(found)),
                     DataValue(v, variables, Head(found))),
             Tail(found), variables)

-----------------------------------------------------------------------------
(* _re_if_else *)

NoMatch == [ok |-> FALSE]

\* index of the first "]" at or after p, 0 when there is none
RECURSIVE NextClose(_, _)
NextClose(s, p) ==
    IF p > Len(s) THEN 0
    ELSE IF s[p] = "]" THEN p ELSE NextClose(s, p + 1)

\* ...(?:[\t ]+(OP)[\t ]+([^\]]+))?[\t ]*\] : q is where OP would stand,
\* e the first "]" after it, r where VALUE starts
IfHeaderEnd(s, name, w1, q, w2, e, r) ==
    IF /\ w1 >= 1
       /\ q <= Len(s)
       /\ s[q] \in Ops
       /\ w2 >= 1
       /\ e > 0
       /\ r >= q + 2
    THEN [ok |-> TRUE, name |-> name, test |-> s[q],
          value |-> SubSeq(s, r, e - 1), end |-> e]
    ELSE IF q <= Len(s) /\ s[q] = "]"
         THEN [ok |-> TRUE, name |-> name, test |-> "", value |-> <<>>,
               end |-> q]
         ELSE NoMatch

\* the blanks after OP are taken greedily, but VALUE keeps one character
ValueStart(q, w2, e) == IF q + 1 + w2 < e THEN q + 1 + w2 ELSE e - 1

IfHeaderOp(s, name, w1, q, w2, e) ==
    IfHeaderEnd(s, name, w1, q, w2, e, ValueStart(q, w2, e))

\* p is the position after NAME
IfHeaderClause(s, name, p, w1) ==
    IfHeaderOp(s, name, w1, p + w1, WsRun(s, p + w1 + 1),
               NextClose(s, p + w1 + 1))

\* a is where NAME starts, n its length
IfHeaderName(s, a, n) ==
    IF n = 0 THEN NoMatch
    ELSE IfHeaderClause(s, SubSeq(s, a, a + n - 1), a + n, WsRun(s, a + n))

\* j is where `if` stands, w the blanks after it
IfHeaderIf(s, j, w) ==
    IF ~(j <= Len(s) /\ s[j] = "if") \/ w = 0 THEN NoMatch
    ELSE IfHeaderName(s, j + 1 + w, LetterRun(s, j + 1 + w))

IfHeaderAt(s, j) == IfHeaderIf(s, j, WsRun(s, j + 1))

\* \[[\t ]*if[\t ]+([A-Za-z_]+)(?:[\t ]+(OP)[\t ]+([^\]]+))?[\t ]*\]
IfHeader(s, i) ==
    IF ~(i <= Len(s) /\ s[i] = "[") THEN NoMatch
    ELSE IfHeaderAt(s, i + 1 + WsRun(s, i + 1))

KeywordClose(s, e) == IF e <= Len(s) /\ s[e] = "]" THEN e ELSE 0

KeywordWord(s, j, kw) ==
    IF ~(j <= Len(s) /\ s[j] = kw) THEN 0
    ELSE KeywordClose(s, j + 1 + WsRun(s, j + 1))

\* \[[\t ]*kw[\t ]*\] at p: the index of its "]", 0 when it does not match
KeywordAt(s, p, kw) ==
    IF ~(p <= Len(s) /\ s[p] = "[") THEN 0
    ELSE KeywordWord(s, p + 1 + WsRun(s, p + 1), kw)

\* \n?
SkipNL(s, p) == IF p <= Len(s) /\ s[p] = NL THEN p + 1 ELSE p

\* \n?\[[\t ]*fi[\t ]*\]
FiEnd(s, p) == KeywordAt(s, SkipNL(s, p), "fi")

ElseFound(s, c, k, e) ==
    [ok |-> TRUE, body |-> SubSeq(s, c, c + k - 1), end |-> e]

\* the least k >= k0 with \[fi\] right after the body s[c .. c+k-1], or 0
RECURSIVE BodyLen(_, _, _)
BodyLen(s, c, k) ==
    IF c + k - 1 > Len(s) THEN 0
    ELSE IF FiEnd(s, c + k) > 0 THEN k
    ELSE BodyLen(s, c, k + 1)

\* (.+?)\n?\[fi\] with the body starting at c: the shortest body first
ElseBodyOf(s, c, k) ==
    IF k = 0 THEN NoMatch ELSE ElseFound(s, c, k, FiEnd(s, c + k))

ElseBody(s, c) == ElseBodyOf(s, c, BodyLen(s, c, 1))

ElseFromAt(s, e1, c, first) ==
    IF first.ok \/ c = e1 + 1 THEN first ELSE ElseBody(s, e1 + 1)

ElseFromNL(s, e1, c) == ElseFromAt(s, e1, c, ElseBody(s, c))

\* what follows \[else\] ending at e1
ElseFrom(s, e1) == ElseFromNL(s, e1, SkipNL(s, e1 + 1))

ElseAfter(s, e1) == IF e1 > 0 THEN ElseFrom(s, e1) ELSE NoMatch

IfFound(s, a, k, el, fe) ==
    IF el.ok
    THEN [ok |-> TRUE, sIf |-> SubSeq(s, a, a + k - 1), hasElse |-> TRUE,
          sElse |-> el.body, end |-> el.end]
    ELSE IF fe > 0
         THEN [ok |-> TRUE, sIf |-> SubSeq(s, a, a + k - 1),
               hasElse |-> FALSE, sElse |-> <<>>, end |-> fe]
         ELSE NoMatch

\* the body s[a .. a+k-1] followed by \n? and then the else part or \[fi\]
IfTail(s, a, k, q) ==
    IfFound(s, a, k, ElseAfter(s, KeywordAt(s, q, "else")),
            KeywordAt(s, q, "fi"))

IfTry(s, a, k) == IfTail(s, a, k, SkipNL(s, a + k))

\* (.+?)\n?(?:\[else\]\n?(.+?)\n?)?\[fi\] with the body starting at a
RECURSIVE IfBody(_, _, _)
IfBody(s, a, k) ==
    IF a + k - 1 > Len(s) THEN NoMatch
    ELSE IF IfTry(s, a, k).ok THEN IfTry(s, a, k)
    ELSE IfBody(s, a, k + 1)

MatchFound(s, i, h, b) ==
    IF ~b.ok THEN NoMatch
    ELSE [ok |-> TRUE, sReplace |-> SubSeq(s, i, b.end),
          sVariable |-> h.name, sTest |-> h.test, mValue |-> h.value,
          sIf |-> b.sIf, hasElse |-> b.hasElse, sElse |-> b.sElse,
          end |-> b.end]

MatchBodyAt(s, h, a, first) ==
    IF first.ok \/ a = h.end + 1 THEN first ELSE IfBody(s, h.end + 1, 1)

MatchBody(s, h, a) == MatchBodyAt(s, h, a, IfBody(s, a, 1))

MatchHeader(s, i, h) ==
    IF ~h.ok THEN NoMatch
    ELSE MatchFound(s, i, h, MatchBody(s, h, SkipNL(s, h.end + 1)))

\* one match of _re_if_else starting at i
MatchAt(s, i) == MatchHeader(s, i, IfHeader(s, i))

FindIterNext(s, i, m) ==
    IF m.ok THEN m.end + 1 ELSE i + 1

\* _re_if_else.finditer(content)
RECURSIVE FindIterFrom(_, _)
FindIterFrom(s, i) ==
    IF i > Len(s) THEN <<>>
    ELSE (IF MatchAt(s, i).ok THEN <<MatchAt(s, i)>> ELSE <<>>)
             \o FindIterFrom(s, FindIterNext(s, i, MatchAt(s, i)))

re_if_else_finditer(s) == FindIterFrom(s, 1)

-----------------------------------------------------------------------------
(* _generate_content: the conditional pass *)

Ok(val)     == [raised |-> FALSE, val |-> val]
Raise(what) == [raised |-> TRUE,  val |-> <<what>>]

\* positions of the groups of _re_if_else in lGroups (1-based here)
COND_TYPE == 2
COND_IF_CONTENT == 4
COND_ELSE_CONTENT == 5

\* _special_conditionals: '$EMPTY' -> '', '$NULL' -> None
SpecialValue(mValue) ==
    IF mValue = <<"$EMPTY">> THEN StrV(<<>>)
    ELSE IF mValue = <<"$NULL">> THEN NoneV
    ELSE StrV(mValue)

\* s.strip() of the blanks
RECURSIVE Strip(_)
Strip(s) ==
    IF s # <<>> /\ Head(s) = WS THEN Strip(Tail(s))
    ELSE IF s # <<>> /\ s[Len(s)] = WS THEN Strip(SubSeq(s, 1, Len(s) - 1))
    ELSE s

MaxNum == 20

IsNumeric(s) ==
    /\ Len(Strip(s)) = 1
    /\ \E n \in 0..MaxNum : ToString(n) = Strip(s)[1]

IntOf(s) == CHOOSE n \in 0..MaxNum : ToString(n) = Strip(s)[1]

\* to_bool of the strings package
to_bool(s) == s \in {<<"true">>, <<"1">>, <<"yes">>}

\* the conversion of mValue to the type of the variable's value
Coerce(x, mValue) ==
    IF mValue.t = "none" THEN Ok(mValue)
    ELSE CASE x.t = "bool" -> Ok(BoolV(to_bool(mValue.v)))
           [] x.t = "str"  -> Ok(mValue)
           [] x.t = "int"  -> IF IsNumeric(mValue.v)
                              THEN Ok(IntV(IntOf(mValue.v)))
                              ELSE Raise("ValueError")
           [] x.t = "none" -> Raise("TypeError")

Alphabet == <<"0", "1", "17", "18", "F", "N", "S", "T", "a", "b", "c", "e",
              "g", "l", "m", "n", "o", "r", "s", "u", "x", "y">>

Rank(a) == IF \E i \in 1..Len(Alphabet) : Alphabet[i] = a
           THEN CHOOSE i \in 1..Len(Alphabet) : Alphabet[i] = a
           ELSE 0

RECURSIVE StrLess(_, _)
StrLess(a, b) ==
    IF b = <<>> THEN FALSE
    ELSE IF a = <<>> THEN TRUE
    ELSE IF Head(a) = Head(b) THEN StrLess(Tail(a), Tail(b))
    ELSE Rank(Head(a)) < Rank(Head(b))

Num(x) == IF x.t = "bool" THEN (IF x.v THEN 1 ELSE 0) ELSE x.v

IsNum(x) == x.t \in {"int", "bool"}

PyEq(x, y) ==
    IF IsNum(x) /\ IsNum(y) THEN Num(x) = Num(y)
    ELSE x.t = y.t /\ x.v = y.v

PyLess(x, y) ==
    IF IsNum(x) THEN Num(x) < Num(y) ELSE StrLess(x.v, y.v)

\* _conditional[sTest](x, y)
Compare(sTest, x, y) ==
    IF sTest = "==" THEN Ok(PyEq(x, y))
    ELSE IF sTest = "!=" THEN Ok(~PyEq(x, y))
    ELSE IF ~((IsNum(x) /\ IsNum(y)) \/ (x.t = "str" /\ y.t = "str"))
         THEN Raise("TypeError")
    ELSE CASE sTest = "<"  -> Ok(PyLess(x, y))
           [] sTest = "<=" -> Ok(PyLess(x, y) \/ PyEq(x, y))
           [] sTest = ">"  -> Ok(PyLess(y, x))
           [] sTest = ">=" -> Ok(PyLess(y, x) \/ PyEq(x, y))

\* the list made of oConditional.groups()
Groups(m) == <<m.sVariable, m.sTest, m.mValue, m.sIf, m.sElse>>

\* the same without the test `sVariable not in variables`
InvalidVariableUnchecked(sVariable) == Raise("KeyError")

\* 'INVALID VARIABLE (%s) IN CONDITIONAL' % sVariable
InvalidVariable(sVariable) ==
    Ok(<<"INVALID VARIABLE (">> \o sVariable \o <<") IN CONDITIONAL">>)

\* the same with the exception left to propagate
InvalidValueUncaught(sVariable) == Raise("ValueError")

\* '%s HAS INVALID VALUE IN CONDITIONAL' % sVariable
InvalidValue(sVariable) ==
    Ok(sVariable \o <<" HAS INVALID VALUE IN CONDITIONAL">>)

\* what one block is replaced with, or the exception its evaluation raises
Conditional(v, m, variables) ==
    IF m.sTest = ""
    THEN Ok(IF m.sVariable \in DOMAIN variables
               /\ Truthy(variables[m.sVariable])
            THEN m.sIf ELSE m.sElse)
    ELSE IF m.sVariable \notin DOMAIN variables
    THEN InvalidVariable(m.sVariable)
    ELSE LET x  == variables[m.sVariable]
             co == Coerce(x, SpecialValue(m.mValue))
         IN
    IF co.raised
    THEN IF co.val = <<"ValueError">>
         THEN InvalidValue(m.sVariable)
         ELSE co
    ELSE LET bPassed == Compare(Groups(m)[COND_TYPE], x, co.val) IN
    IF bPassed.raised THEN bPassed
    ELSE IF bPassed.val THEN Ok(Groups(m)[COND_IF_CONTENT])
    ELSE IF v = "v1" THEN Raise("NameError")
    ELSE Ok(Groups(m)[COND_ELSE_CONTENT])

\* for oConditional in finditer(content): content = content.replace(...)
RECURSIVE Conditionals(_, _, _, _)
Conditionals(v, content, found, variables) ==
    IF found = <<>> THEN Ok(content)
    ELSE LET c == Conditional(v, Head(found), variables) IN
         IF c.raised THEN c
         ELSE Conditionals(v, Replace(content, Head(found).sReplace, c.val),
                           Tail(found), variables)

\* the same with the two loops in the other order
GenerateContentConditionalsFirst(v, content, variables) ==
    LET cond == Conditionals(v, content, re_if_else_finditer(content), variables)
    IN  IF cond.raised THEN cond
        ELSE Ok(SubstituteVars(v, cond.val, re_data_findall(cond.val), variables))

\* _generate_content(content, variables)
GenerateContent(v, content, variables) ==
    LET subst == SubstituteVars(v, content, re_data_findall(content), variables)
    IN  Conditionals(v, subst, re_if_else_finditer(subst), variables)

-----------------------------------------------------------------------------
(* The Template store and the entries of the `templates` dict *)

EmailFields == <<"subject", "text", "html">>

\* the fields a render of this kind goes through; an SMS has its one string
Fields(kind) == IF kind = "sms" THEN <<"content">> ELSE EmailFields

TplRef(sTpl) == <<"#">> \o sTpl \o <<"#">>

Value(val)      == [do |-> "value", val |-> val]
Recurse(c)      == [do |-> "recurse", content |-> c]
Throw(what)     == [do |-> "raise", exc |-> what]

AllFields(val) == [f \in {"subject", "text", "html"} |-> val]

HasLocale(st, sTpl, locale) ==
    sTpl \in DOMAIN st /\ locale \in DOMAIN st[sTpl]

\* the same without the test `if not dTemplate`: dTemplate['_id'] of None
sms_entry_v1_unchecked(st, sTpl, locale) ==
    IF sTpl \notin DOMAIN st
    THEN Throw("TypeError")
    ELSE IF ~(HasLocale(st, sTpl, locale) /\ "sms" \in DOMAIN st[sTpl][locale])
    THEN Value("content" :>
             <<"!!!", "#">> \o sTpl \o <<".", locale, "#", " does not exist!!!">>)
    ELSE Recurse("content" :> st[sTpl][locale]["sms"])

\* the same taking the content of whichever locale the template has
sms_entry_v1_any_locale(st, sTpl, locale) ==
    IF sTpl \notin DOMAIN st
    THEN Value("content" :>
             <<"!!!", "#">> \o sTpl \o <<"#", " does not exist!!!">>)
    ELSE IF \A l \in DOMAIN st[sTpl] : "sms" \notin DOMAIN st[sTpl][l]
    THEN Value("content" :>
             <<"!!!", "#">> \o sTpl \o <<".", locale, "#", " does not exist!!!">>)
    ELSE Recurse("content" :>
             st[sTpl][CHOOSE l \in DOMAIN st[sTpl] :
                          /\ "sms" \in DOMAIN st[sTpl][l]
                          /\ \A m \in DOMAIN st[sTpl] : l = m \/ l # locale]["sms"])

\* _generate_sms of __init__.py, the branch `if sTpl not in templates`
sms_entry_v1(st, sTpl, locale) ==
    IF sTpl \notin DOMAIN st
    THEN Value("content" :>
             <<"!!!", "#">> \o sTpl \o <<"#", " does not exist!!!">>)
    ELSE IF ~(HasLocale(st, sTpl, locale) /\ "sms" \in DOMAIN st[sTpl][locale])
    THEN Value("content" :>
             <<"!!!", "#">> \o sTpl \o <<".", locale, "#", " does not exist!!!">>)
    ELSE Recurse("content" :> st[sTpl][locale]["sms"])

\* _generate_sms of service.py, the branch `if sTpl not in templates`
sms_entry_v2(st, sTpl, locale) ==
    IF sTpl \notin DOMAIN st
    THEN Value("content" :> <<"!!!", "#">> \o sTpl \o <<"#", "!!!">>)
    ELSE IF ~HasLocale(st, sTpl, locale)
    THEN Value("content" :>
             <<"!!!", "#">> \o sTpl \o <<".", locale, "#", "!!!">>)
    ELSE IF "sms" \notin DOMAIN st[sTpl][locale]
    THEN Value("content" :>
             <<"!!!", "#">> \o sTpl
                 \o <<".", locale, ".", "s", "m", "s", "#", "!!!">>)
    ELSE Recurse("content" :> st[sTpl][locale]["sms"])

\* the same with the name alone in the marker of the missing locale
email_entry_v1_no_locale(st, sTpl, locale) ==
    IF sTpl \notin DOMAIN st
       \/ ~(/\ HasLocale(st, sTpl, locale)
            /\ {"subject", "text", "html"} \subseteq DOMAIN st[sTpl][locale])
    THEN Value(AllFields(
             <<"!!!", "#">> \o sTpl \o <<"#", " does not exist!!!">>))
    ELSE Recurse([f \in {"subject", "text", "html"} |-> st[sTpl][locale][f]])

\* _generate_email of __init__.py, the branch `if sTpl not in templates`
email_entry_v1(st, sTpl, locale) ==
    IF sTpl \notin DOMAIN st
    THEN Value(AllFields(
             <<"!!!", "#">> \o sTpl \o <<"#", " does not exist!!!">>))
    ELSE IF ~(/\ HasLocale(st, sTpl, locale)
              /\ {"subject", "text", "html"} \subseteq DOMAIN st[sTpl][locale])
    THEN Value(AllFields(
             <<"!!!", "#">> \o sTpl \o <<".", locale, "#", " does not exist!!!">>))
    ELSE Recurse([f \in {"subject", "text", "html"} |-> st[sTpl][locale][f]])

\* _generate_email of service.py, the branch `if sTpl not in templates`
email_entry_v2(st, sTpl, locale) ==
    IF sTpl \notin DOMAIN st
    THEN Throw("TypeError")
    ELSE IF ~HasLocale(st, sTpl, locale)
    THEN Value(AllFields(
             <<"!!!", "#">> \o sTpl \o <<".", locale, "#", "!!!">>))
    ELSE Recurse([f \in DOMAIN st[sTpl][locale] \cup {"subject", "text", "html"} |->
             IF f \in DOMAIN st[sTpl][locale]
             THEN st[sTpl][locale][f]
             ELSE <<"!!!", "#">> \o sTpl \o <<".", locale, ".", f, "#", "!!!">>])

Entry(v, kind, st, sTpl, locale) ==
    CASE v = "v1" /\ kind = "sms"   -> sms_entry_v1(st, sTpl, locale)
      [] v = "v2" /\ kind = "sms"   -> sms_entry_v2(st, sTpl, locale)
      [] v = "v1" /\ kind = "email" -> email_entry_v1(st, sTpl, locale)
      [] v = "v2" /\ kind = "email" -> email_entry_v2(st, sTpl, locale)

\* the value of the loop variable `s` at the statements after the lookup:
\* in service.py the inner `for s in ['html', 'subject', 'text']` rebinds it
FieldAfterRecurse(v, kind, s) ==
    IF v = "v2" /\ kind = "email" THEN "text" ELSE s

-----------------------------------------------------------------------------
(* The `templates` objects *)

NoDict == [n \in {} |-> <<>>]

\* were the default argument a dict made once (templates = {}), every
\* top-level call would work on that one object
TopTemplatesDefaultDict(h) == 1

\* the object a top-level call works on: the argument is omitted, so
\* `templates = {}` allocates a new dict
TopTemplates(h) == Len(h) + 1

\* the object a recursive call works on, given the object it was passed
CalleeTemplates(v, h, passed) ==
    IF v = "v1" /\ DOMAIN h[passed].d = {} THEN Len(h) + 1 ELSE passed

\* the heap once object id is in use by call r
Alloc(h, id, r) ==
    IF id > Len(h) THEN Append(h, [owner |-> r, d |-> NoDict]) ELSE h

-----------------------------------------------------------------------------
(* The calls of _generate_sms / _generate_email as a stack of frames *)

\* the depth at which the interpreter raises RecursionError
RecursionLimit == 4

Procs == DOMAIN rnd

\* the same were the content stripped of its blanks on entry
FrameStripped(content, id) ==
    [dContent |-> [f \in DOMAIN content |-> Strip(content[f])],
     o |-> 1, s |-> "", found |-> <<>>, i |-> 1, tpl |-> id, phase |-> "field"]

\* the locals of one call at its first statement
Frame(content, id) ==
    [dContent |-> content, o |-> 1, s |-> "", found |-> <<>>, i |-> 1,
     tpl |-> id, phase |-> "field"]

Depth(r) == Len(rnd[r].stack)

Top(r) == rnd[r].stack[Depth(r)]

Running(r) == rnd[r].st = "run"

sTplOf(f) == f.found[f.i]

\* dContent[s] = dContent[s].replace('#%s#' % sTpl, templates[sTpl][s])
Embed(f, entry) ==
    [f EXCEPT !.dContent[f.s] = Replace(@, TplRef(sTplOf(f)), entry[f.s]),
              !.i = @ + 1,
              !.phase = "tpl"]

\* the subscripts of that statement exist
EmbedOk(f, entry) == f.s \in DOMAIN f.dContent /\ f.s \in DOMAIN entry

Raised(r, what) ==
    [rnd EXCEPT ![r].st = "raised", ![r].exc = what, ![r].stack = <<>>]

WithTop(r, f) == [rnd EXCEPT ![r].stack[Depth(r)] = f]

\* a top-level call: self._generate_sms(content, locale, variables)
Call(r) ==
    /\ rnd[r].st = "idle"
    /\ LET id == TopTemplates(heap) IN
       /\ heap' = Alloc(heap, id, r)
       /\ rnd' = [rnd EXCEPT ![r].st = "run",
                             ![r].stack = <<Frame(rnd[r].content, id)>>]
    /\ UNCHANGED <<ver, store, lookups, gc, locales, declared, api, rows,
                   inflight>>

\* for s in ['subject', 'text', 'html']: the head of one iteration
FieldStep(r) ==
    /\ Running(r)
    /\ Top(r).phase = "field"
    /\ Top(r).o <= Len(Fields(rnd[r].kind))
    /\ LET f == Top(r)
           s == Fields(rnd[r].kind)[f.o]
       IN  rnd' = WithTop(r,
               IF s \notin DOMAIN f.dContent
               THEN [f EXCEPT !.dContent = (s :> <<"!!!", s, " missing!!!">>) @@ @,
                              !.s = s,
                              !.o = @ + 1]
               ELSE [f EXCEPT !.s = s,
                              !.found = re_tpl_findall(f.dContent[s]),
                              !.i = 1,
                              !.phase = "tpl"])
    /\ UNCHANGED <<ver, store, heap, lookups, gc, locales, declared, api, rows,
                   inflight>>

\* sTpl is not in templates and the store gives no content to render
Lookup(r) ==
    /\ Running(r)
    /\ Top(r).phase = "tpl"
    /\ Top(r).i <= Len(Top(r).found)
    /\ sTplOf(Top(r)) \notin DOMAIN heap[Top(r).tpl].d
    /\ LET f == Top(r)
           e == Entry(ver, rnd[r].kind, store, sTplOf(f), rnd[r].locale)
       IN  /\ e.do # "recurse"
           /\ lookups' = [lookups EXCEPT ![r] = Append(@, sTplOf(f))]
           /\ IF e.do = "raise"
              THEN /\ rnd' = Raised(r, e.exc)
                   /\ heap' = heap
              ELSE /\ heap' = [heap EXCEPT ![f.tpl].d = (sTplOf(f) :> e.val) @@ @]
                   /\ rnd' = IF EmbedOk(f, e.val)
                             THEN WithTop(r, Embed(f, e.val))
                             ELSE Raised(r, "KeyError")
    /\ UNCHANGED <<ver, store, gc, locales, declared, api, rows,
                   inflight>>

\* sTpl is not in templates and the store has content: the recursive call
Descend(r) ==
    /\ Running(r)
    /\ Top(r).phase = "tpl"
    /\ Top(r).i <= Len(Top(r).found)
    /\ sTplOf(Top(r)) \notin DOMAIN heap[Top(r).tpl].d
    /\ LET f  == Top(r)
           e  == Entry(ver, rnd[r].kind, store, sTplOf(f), rnd[r].locale)
           id == CalleeTemplates(ver, heap, f.tpl)
       IN  /\ e.do = "recurse"
           /\ lookups' = [lookups EXCEPT ![r] = Append(@, sTplOf(f))]
           /\ IF Depth(r) >= RecursionLimit
              THEN /\ rnd' = Raised(r, "RecursionError")
                   /\ heap' = heap
              ELSE /\ heap' = Alloc(heap, id, r)
                   /\ rnd' = [rnd EXCEPT ![r].stack =
                         Append([@ EXCEPT ![Depth(r)] =
                                    [f EXCEPT !.phase = "wait",
                                              !.s = FieldAfterRecurse(ver, rnd[r].kind, @)]],
                                Frame(e.content, id))]
    /\ UNCHANGED <<ver, store, gc, locales, declared, api, rows,
                   inflight>>

\* sTpl is in templates already
Cached(r) ==
    /\ Running(r)
    /\ Top(r).phase = "tpl"
    /\ Top(r).i <= Len(Top(r).found)
    /\ sTplOf(Top(r)) \in DOMAIN heap[Top(r).tpl].d
    /\ LET f == Top(r)
           e == heap[f.tpl].d[sTplOf(f)]
       IN  rnd' = IF EmbedOk(f, e) THEN WithTop(r, Embed(f, e))
                                   ELSE Raised(r, "KeyError")
    /\ UNCHANGED <<ver, store, heap, lookups, gc, locales, declared, api, rows,
                   inflight>>

\* dContent[s] = cls._generate_content(dContent[s], variables)
FieldEnd(r) ==
    /\ Running(r)
    /\ Top(r).phase = "tpl"
    /\ Top(r).i > Len(Top(r).found)
    /\ LET f == Top(r)
           g == GenerateContent(ver, f.dContent[f.s], rnd[r].variables)
       IN  rnd' = IF g.raised
                  THEN Raised(r, g.val[1])
                  ELSE WithTop(r, [f EXCEPT !.dContent[f.s] = g.val,
                                            !.o = @ + 1,
                                            !.phase = "field"])
    /\ UNCHANGED <<ver, store, heap, lookups, gc, locales, declared, api, rows,
                   inflight>>

\* return dContent: to the caller of the top-level call, or into
\* templates[sTpl] of the calling frame, which then replaces the reference
Return(r) ==
    /\ Running(r)
    /\ Top(r).phase = "field"
    /\ Top(r).o > Len(Fields(rnd[r].kind))
    /\ IF Depth(r) = 1
       THEN /\ rnd' = [rnd EXCEPT ![r].st = "done",
                                  ![r].result = Top(r).dContent,
                                  ![r].stack = <<>>]
            /\ heap' = heap
       ELSE LET res == Top(r).dContent
                p   == rnd[r].stack[Depth(r) - 1]
            IN  /\ heap' = [heap EXCEPT ![p.tpl].d = (sTplOf(p) :> res) @@ @]
                /\ rnd' = IF EmbedOk(p, res)
                          THEN [rnd EXCEPT ![r].stack =
                                   Append(SubSeq(@, 1, Depth(r) - 2), Embed(p, res))]
                          ELSE Raised(r, "KeyError")
    /\ UNCHANGED <<ver, store, lookups, gc, locales, declared, api, rows,
                   inflight>>

\* the harness of _generate_content: one call on the drawn arguments
GenContent ==
    /\ gc.st = "in"
    /\ gc' = [gc EXCEPT !.st = "out",
                        !.out = GenerateContent(ver, gc.content, gc.variables)]
    /\ UNCHANGED <<ver, store, heap, rnd, lookups, locales, declared, api, rows,
                   inflight>>

-----------------------------------------------------------------------------
(* Inputs: names, texts, stores, bindings *)

A == Name("a")
B == Name("b")
C == Name("c")
G == Name("g")
X == Name("x")
Y == Name("y")

L1 == "en-US"
L2 == "fr-CA"

Sam == <<"S", "a", "m">>

IfElse == <<"[", "if", " ", "x", "]", "Yes", "[", "else", "]", "No", "[", "fi", "]">>

Greeting == <<"Hello ">> \o VarRef(X) \o <<", ">> \o TplRef(A)

Rec(sms, subject, text, html) ==
    [f \in {"sms", "subject", "text", "html"} |->
        CASE f = "sms" -> sms [] f = "subject" -> subject
          [] f = "text" -> text [] f = "html" -> html]

\* a signs off, b greets and embeds a, c has no content for en-US
StoreEmbed ==
    (A :> (L1 :> Rec(<<"Bye!">>, <<"Sa">>, <<"Ta">>, <<"Ha">>)
           @@ L2 :> Rec(<<"Ciao!">>, <<"Sa2">>, <<"Ta2">>, <<"Ha2">>)))
    @@ (B :> (L1 :> Rec(Greeting, TplRef(A), VarRef(X) \o TplRef(A), <<"Hb">>)))
    @@ (C :> (L2 :> Rec(<<"Salut">>, <<"Sc">>, <<"Tc">>, <<"Hc">>)))

\* a embeds b and c, b embeds c, c has a variable of its own
StoreDiamond ==
    (A :> (L1 :> Rec(TplRef(B) \o <<" ">> \o TplRef(C), TplRef(B), TplRef(C),
                     TplRef(B) \o TplRef(C))))
    @@ (B :> (L1 :> Rec(TplRef(C), TplRef(C), <<"Tb">>, TplRef(C))))
    @@ (C :> (L1 :> Rec(<<"C">> \o VarRef(Y), <<"Sc">>, VarRef(Y), IfElse)))

\* records that lack fields: a has no sms and no html, b has the sms only
\* and embeds a and a template that does not exist
StorePartial ==
    (A :> (L1 :> ("subject" :> <<"Sa">> @@ "text" :> VarRef(X))))
    @@ (B :> (L1 :> ("sms" :> <<"Bb">> \o TplRef(A) \o TplRef(G))))

\* a embeds itself, b and c embed each other
StoreCycle ==
    (A :> (L1 :> Rec(TplRef(A), TplRef(A), <<"Ta">>, <<"Ha">>)))
    @@ (B :> (L1 :> Rec(TplRef(C), <<"Sb">>, TplRef(C), <<"Hb">>)))
    @@ (C :> (L1 :> Rec(<<"c">> \o TplRef(B), <<"Sc">>, TplRef(B), <<"Hc">>)))

AcyclicStores == {StoreEmbed, StoreDiamond, StorePartial}

Stores == AcyclicStores \cup {StoreCycle}

\* ` #{}[if]`: the delimiters without anything the expressions match
Loose == <<" ", "#", "{", "}", "[", "if", "]">>

Tokens ==
    {TplRef(A), TplRef(B), TplRef(C), TplRef(G), VarRef(X), <<"Hi ">>, IfElse,
     Loose}

\* the longest top-level content, in tokens
MaxTokens == 2

RECURSIVE Texts(_)
Texts(n) ==
    IF n = 0 THEN {<<>>}
    ELSE LET shorter == Texts(n - 1) IN
         shorter \cup {t \o tok : t \in shorter, tok \in Tokens}

NoVars == [n \in {} |-> NoneV]

Bindings == {NoVars, X :> StrV(Sam)}

Idle(kind, content, locale, variables) ==
    [st |-> "idle", kind |-> kind, content |-> content, locale |-> locale,
     variables |-> variables, stack |-> <<>>, result |-> NoDict, exc |-> ""]

SmsCalls ==
    {Idle("sms", "content" :> c, L1, b) :
        c \in Texts(MaxTokens) \cup {Greeting}, b \in Bindings}

\* the html field is fixed, or the field is missing
EmailCalls ==
    {Idle("email", ("subject" :> c1 @@ "text" :> c2) @@ h, L1, b) :
        c1 \in Texts(1), c2 \in Texts(1),
        h \in {"html" :> <<"H">>, NoDict}, b \in Bindings}

GcOff == [st |-> "off", content |-> <<>>, variables |-> NoVars, out |-> Ok(<<>>)]

\* the variants of content and the fields of the store each one holds
VariantFields(variant) ==
    IF variant = "email" THEN {"subject", "text", "html"} ELSE {"sms"}

\* one row per variant, template and locale the store has fields of
RowsOf(st) ==
    [key \in {<<variant, t, l>> \in
                   {"email", "sms"} \X (DOMAIN st)
                       \X (UNION {DOMAIN st[n] : n \in DOMAIN st}) :
                 /\ l \in DOMAIN st[t]
                 /\ DOMAIN st[t][l] \cap VariantFields(variant) # {}} |-> 1]

\* no request served yet
ApiIdle == [op |-> "none", req |-> NoDict, resp |-> [err |-> "", data |-> <<>>]]

\* the records beside the contents: both locales exist and no template
\* declares a variable
ServiceIdle ==
    /\ locales = [l \in {L1, L2} |-> [archived |-> FALSE, name |-> l]]
    /\ declared = [n \in DOMAIN store |-> {}]
    /\ api = ApiIdle
    /\ rows = RowsOf(store)
    /\ inflight = <<>>

InitOn(stores, calls) ==
    /\ ver \in {"v1", "v2"}
    /\ store \in stores
    /\ heap = <<>>
    /\ rnd \in [{1} -> calls]
    /\ lookups = [r \in {1} |-> <<>>]
    /\ gc = GcOff
    /\ ServiceIdle

Init == InitOn(Stores, SmsCalls \cup EmailCalls)

Next ==
    \/ \E r \in Procs : Call(r)
    \/ \E r \in Procs : FieldStep(r)
    \/ \E r \in Procs : Lookup(r)
    \/ \E r \in Procs : Descend(r)
    \/ \E r \in Procs : Cached(r)
    \/ \E r \in Procs : FieldEnd(r)
    \/ \E r \in Procs : Return(r)

\* one top-level render at a time, on every store
Spec == Init /\ [][Next]_vars

InitAcyclic == InitOn(AcyclicStores, SmsCalls \cup EmailCalls)

\* the same on the stores in which no template embeds itself
SpecAcyclic == InitAcyclic /\ [][Next]_vars

\* two top-level renders, started in either order and interleaved at will
TwoCalls ==
    {Idle("sms", "content" :> c, l, b) :
        c \in {TplRef(A), TplRef(G) \o TplRef(B)}, l \in {L1, L2},
        b \in Bindings}
    \cup {Idle("email", AllFields(c), l, X :> StrV(Sam)) :
        c \in {TplRef(A), TplRef(C)}, l \in {L1, L2}}

InitTwo ==
    /\ ver \in {"v1", "v2"}
    /\ store = StoreEmbed
    /\ heap = <<>>
    /\ rnd \in [{1, 2} -> TwoCalls]
    /\ lookups = [r \in {1, 2} |-> <<>>]
    /\ gc = GcOff
    /\ ServiceIdle

SpecTwo == InitTwo /\ [][Next]_vars

IfOnly == <<"[", "if", " ", "x", "]", "Yes", "[", "fi", "]">>

\* [if y]{x}[else]Nay[fi]
IfVar ==
    <<"[", "if", " ", "y", "]">> \o VarRef(X)
        \o <<"[", "else", "]", "Nay", "[", "fi", "]">>

\* [if NAME OP VALUE]sIf[else]sElse[fi], without the else part when sElse
\* is empty
Block(name, op, value, sIf, sElse) ==
    <<"[", "if", " ">> \o name \o <<" ", op, " ">> \o value \o <<"]">> \o sIf
        \o (IF sElse = <<>> THEN <<>> ELSE <<"[", "else", "]">> \o sElse)
        \o <<"[", "fi", "]">>

OpGe == Block(X, ">=", <<"18">>, <<"Adult">>, <<"Minor">>)

OpEqEmpty == Block(X, "==", <<"$EMPTY">>, <<"E">>, <<"N">>)

OpLtNull == Block(X, "<", <<"$NULL">>, <<"L">>, <<>>)

OpEqSam == Block(X, "==", Sam, <<"S">>, <<"O">>)

OpNeY == Block(Y, "!=", <<"Yo">>, <<"D">>, <<>>)

\* the pieces of a content handed to _generate_content
ContentTokens ==
    {VarRef(X), VarRef(Y), <<"Hi ">>, <<" ">>, IfElse, IfOnly, IfVar,
     OpGe, OpEqEmpty, OpLtNull, OpEqSam, OpNeY}

RECURSIVE ContentTexts(_)
ContentTexts(n) ==
    IF n = 0 THEN {<<>>}
    ELSE LET shorter == ContentTexts(n - 1) IN
         shorter \cup {t \o tok : t \in shorter, tok \in ContentTokens}

\* x is absent or bound to a scalar; y is absent or bound to a string
ContentBindings ==
    {bx @@ by :
        bx \in {NoVars} \cup
               {X :> val : val \in {StrV(Sam), StrV(<<>>), IntV(0), IntV(17),
                                    IntV(18), BoolV(FALSE), BoolV(TRUE),
                                    NoneV}},
        by \in {NoVars, Y :> StrV(<<"Yo">>)}}

\* [if y]Yes[fi]
IfY == <<"[", "if", " ", "y", "]", "Yes", "[", "fi", "]">>

Yo == Y :> StrV(<<"Yo">>)

\* contents and bindings in which the text of one pass is the input of
\* another: a value that reads as a reference, a value that reads as a
\* block, a block whose branch holds a variable
OrderCalls ==
    {Idle("sms", "content" :> c, L1, b) :
        c \in {TplRef(A) \o VarRef(X), VarRef(X), IfVar, TplRef(C) \o TplRef(C),
               TplRef(G) \o IfVar, TplRef(B)},
        b \in {NoVars, X :> StrV(Sam) @@ Yo, X :> StrV(TplRef(A)) @@ Yo,
               X :> StrV(IfY) @@ Yo, X :> StrV(IfY)}}

InitOrder == InitOn(AcyclicStores, OrderCalls)

\* SMS renders of those contents
SpecOrder == InitOrder /\ [][Next]_vars

InitContent ==
    /\ ver \in {"v1", "v2"}
    /\ store = StoreEmbed
    /\ heap = <<>>
    /\ rnd = <<>>
    /\ lookups = <<>>
    /\ gc \in {[st |-> "in", content |-> c, variables |-> b, out |-> Ok(<<>>)] :
                  c \in ContentTexts(MaxTokens), b \in ContentBindings}
    /\ ServiceIdle

NextContent == GenContent

\* one call of _generate_content on a drawn content and bindings
SpecContent == InitContent /\ [][NextContent]_vars

-----------------------------------------------------------------------------
(* _checkTemplateContent *)

\* the keys of names for which content[k] raises no KeyError
Scanned(content, names) == Range(names) \cap DOMAIN content

\* lsTemplates after the loop over names
lsTemplates(content, names) ==
    UNION {Range(re_tpl_findall(content[k])) : k \in Scanned(content, names)}

\* the same were the loop left after its first key
lsVariablesFirstKey(content, names) ==
    IF names # <<>> /\ names[1] \in DOMAIN content
    THEN Range(re_data_findall(content[names[1]]))
    ELSE {}

\* lsVariables after the loop over names
lsVariables(content, names) ==
    UNION {Range(re_data_findall(content[k])) : k \in Scanned(content, names)}

\* ['template', s] for each s of lsTemplates that Template.filter did not
\* return
TemplateErrors(content, names, st) ==
    {<<"template", sTpl>> : sTpl \in lsTemplates(content, names) \ DOMAIN st}

\* ['variable', s] for each s of lsVariables not in variables
VariableErrors(content, names, variables) ==
    {<<"variable", sVar>> : sVar \in lsVariables(content, names) \ variables}

\* the orders in which a loop over a set may meet its elements
Orderings(S) == {q \in [1..Cardinality(S) -> S] : Range(q) = S}

\* the lists _checkTemplateContent may return: the template errors, then
\* the variable errors, each in the iteration order of its set
checkTemplateContent(content, names, variables, st) ==
    {tq \o vq : tq \in Orderings(TemplateErrors(content, names, st)),
                vq \in Orderings(VariableErrors(content, names, variables))}

\* the texts handed to the validator and to the content operations
CheckTexts ==
    {<<>>, <<"Hi ">> \o VarRef(X), TplRef(A) \o VarRef(X) \o VarRef(X),
     TplRef(G) \o VarRef(Y) \o TplRef(G),
     TplRef(G) \o TplRef(C) \o VarRef(X) \o VarRef(Y), Loose}

\* an SMS content, or an email content with or without its html
CheckContents ==
    {"content" :> c : c \in CheckTexts}
    \cup {("subject" :> c1 @@ "text" :> c2) @@ h :
             c1 \in CheckTexts, c2 \in CheckTexts,
             h \in {NoDict, "html" :> TplRef(B) \o VarRef(Y)}}

\* the harness of _checkTemplateContent: one call on drawn arguments
CheckContent ==
    \E content \in CheckContents,
       names \in {<<"content">>, EmailFields},
       variables \in {{}, {X}, {X, Y}} :
        /\ api.op = "none"
        /\ \E lErrors \in checkTemplateContent(content, names, variables, store) :
              api' = [op |-> "check",
                      req |-> [content |-> content, names |-> names,
                               variables |-> variables],
                      resp |-> [err |-> "", data |-> lErrors]]
        /\ UNCHANGED <<ver, store, heap, rnd, lookups, gc, locales, declared, rows,
                     inflight>>

InitCheck ==
    /\ ver \in {"v1", "v2"}
    /\ store \in {StorePartial, StoreEmbed}
    /\ heap = <<>>
    /\ rnd = [r \in {} |-> NoDict]
    /\ lookups = [r \in {} |-> <<>>]
    /\ gc = GcOff
    /\ ServiceIdle

NextCheck == CheckContent

\* _checkTemplateContent alone, on drawn arguments
SpecCheck == InitCheck /\ [][NextCheck]_vars

-----------------------------------------------------------------------------
(* The content operations: template_email_create, template_sms_create,
   template_email_update, template_sms_update.  A content record is the
   fields a template holds for a locale: subject, text and html are the
   email record, sms is the content of the SMS record; its _id is the pair
   of its template and locale, unique by ui_template_locale. *)

Error(code, data) == [err |-> code, data |-> data]

Response(data) == [err |-> "", data |-> data]

\* TemplateEmail.get(_id) finds a record
HasEmail(st, id) ==
    /\ id[1] \in DOMAIN st
    /\ id[2] \in DOMAIN st[id[1]]
    /\ DOMAIN st[id[1]][id[2]] \cap Range(EmailFields) # {}

\* TemplateSMS.get(_id) finds a record
HasSms(st, id) ==
    /\ id[1] \in DOMAIN st
    /\ id[2] \in DOMAIN st[id[1]]
    /\ "sms" \in DOMAIN st[id[1]][id[2]]

\* the store once create() or save() has written fields for id
Saved(st, id, fields) ==
    LET old == IF id[2] \in DOMAIN st[id[1]] THEN st[id[1]][id[2]] ELSE NoDict
    IN [st EXCEPT ![id[1]] = (id[2] :> (fields @@ old)) @@ st[id[1]]]

\* the fields of a request that name content
ContentOf(data, keys) == [k \in DOMAIN data \cap keys |-> data[k]]

\* the content of an SMS request as the field it is stored in
SmsField(data) == "sms" :> data["content"]

\* `if lErrors:` never taken
RejectedNever(lErrors) == FALSE

\* if lErrors:
Rejected(lErrors) == lErrors # <<>>

\* what a handler leaves when it returns resp and has written nothing
Kept(resp) ==
    [resp |-> resp, store |-> store, rows |-> rows, locales |-> locales,
     declared |-> declared]

\* the same when it has written content
Wrote(resp, st, rw) == [Kept(resp) EXCEPT !.store = st, !.rows = rw]

\* the content tables without an index on (template, locale)
UniqueIndexNone(key) == FALSE

\* ui_template_locale: a row of the variant exists for the template and
\* locale, so that create() or save() raises RecordDuplicate
UniqueIndex(key) == key \in DOMAIN rows

\* the rows with one more of key
Inserted(rw, key) ==
    IF key \in DOMAIN rw THEN [rw EXCEPT ![key] = @ + 1] ELSE rw @@ (key :> 1)

\* the rows with one less of key
Deleted(rw, key) ==
    IF rw[key] > 1 THEN [rw EXCEPT ![key] = @ - 1]
    ELSE [k \in DOMAIN rw \ {key} |-> rw[k]]

\* the store without the fields of the variant for id
Without(st, variant, id) ==
    LET left == [f \in DOMAIN st[id[1]][id[2]] \ VariantFields(variant) |->
                    st[id[1]][id[2]][f]]
    IN [st EXCEPT ![id[1]] =
          IF DOMAIN left = {}
          THEN [l \in DOMAIN st[id[1]] \ {id[2]} |-> st[id[1]][l]]
          ELSE [st[id[1]] EXCEPT ![id[2]] = left]]

\* the end of a create: the validation's verdict, then create()
Create(data, lErrors, variant, fields) ==
    LET id == <<data["template"], data["locale"]>> IN
    IF Rejected(lErrors)
    THEN Kept(Error("TEMPLATE_CONTENT_ERROR", lErrors))
    ELSE IF UniqueIndex(<<variant, id[1], id[2]>>)
    THEN Kept(Error("DB_DUPLICATE", <<data["locale"], "template_locale">>))
    ELSE Wrote(Response(id), Saved(store, id, fields),
               Inserted(rows, <<variant, id[1], id[2]>>))

\* the template and locale of the record id once the fields are assigned
Target(id, fields) ==
    <<IF "template" \in DOMAIN fields THEN fields["template"] ELSE id[1],
      IF "locale" \in DOMAIN fields THEN fields["locale"] ELSE id[2]>>

\* save() of the record id with the fields assigned
SavedAs(variant, id, to, fields, resp) ==
    IF to = id
    THEN Wrote(resp, Saved(store, id, fields), rows)
    ELSE IF UniqueIndex(<<variant, to[1], to[2]>>) \/ to[1] \notin DOMAIN store
    THEN Kept(Error("RecordDuplicate", <<>>))
    ELSE Wrote(resp,
               Saved(Without(store, variant, id), to,
                     ContentOf(fields @@ store[id[1]][id[2]],
                               VariantFields(variant))),
               Inserted(Deleted(rows, <<variant, id[1], id[2]>>),
                        <<variant, to[1], to[2]>>))

\* the end of an update: the validation's verdict, then save()
Update(data, lErrors, variant, fields) ==
    IF Rejected(lErrors)
    THEN Kept(Error("TEMPLATE_CONTENT_ERROR", lErrors))
    ELSE SavedAs(variant, data["_id"], Target(data["_id"], fields), fields,
                 Response(Saved(store, data["_id"], fields) # store))

\* the checks both creates start with
CreateRefused(data) ==
    IF data["template"] \notin DOMAIN declared
    THEN {Error("DB_NO_RECORD", <<data["template"], "template">>)}
    ELSE IF data["locale"] \notin DOMAIN locales
    THEN {Error("DB_NO_RECORD", <<data["locale"], "locale">>)}
    ELSE {}

template_email_create(data) ==
    IF CreateRefused(data) # {}
    THEN {Kept(e) : e \in CreateRefused(data)}
    ELSE {Create(data, lErrors, "email", ContentOf(data, Range(EmailFields))) :
            lErrors \in checkTemplateContent(data, EmailFields,
                                             declared[data["template"]], store)}

template_sms_create(data) ==
    IF CreateRefused(data) # {}
    THEN {Kept(e) : e \in CreateRefused(data)}
    ELSE {Create(data, lErrors, "sms", SmsField(data)) :
            lErrors \in checkTemplateContent(data, <<"content">>,
                                             declared[data["template"]], store)}

\* the keys of an update that are left when every key is kept
UpdatableAll(data) == DOMAIN data \ {"_id"}

\* the keys of an update that are left when those that cannot be updated
\* are removed
Updatable(data) ==
    DOMAIN data \ {"_id", "_created", "_updated", "template", "locale"}

template_email_update(data) ==
    IF ~HasEmail(store, data["_id"])
    THEN {Kept(Error("DB_NO_RECORD", <<data["_id"], "template_email">>))}
    ELSE IF Updatable(data) = {}
    THEN {Kept(Response(FALSE))}
    ELSE {Update(data, lErrors, "email", ContentOf(data, Updatable(data))) :
            lErrors \in checkTemplateContent(ContentOf(data, Updatable(data)),
                                             EmailFields,
                                             declared[data["_id"][1]], store)}

template_sms_update(data) ==
    IF ~HasSms(store, data["_id"])
    THEN {Kept(Error("DB_NO_RECORD", <<data["_id"], "template_sms">>))}
    ELSE {Update(data, lErrors, "sms", SmsField(data)) :
            lErrors \in checkTemplateContent(data, <<"content">>,
                                             declared[data["_id"][1]], store)}

template_email_delete(data) ==
    IF ~HasEmail(store, data["_id"])
    THEN {Kept(Error("DB_NO_RECORD", <<data["_id"], "template_email">>))}
    ELSE {Wrote(Response(TRUE), Without(store, "email", data["_id"]),
                Deleted(rows, <<"email", data["_id"][1], data["_id"][2]>>))}

template_sms_delete(data) ==
    IF ~HasSms(store, data["_id"])
    THEN {Kept(Error("DB_NO_RECORD", <<data["_id"], "template_sms">>))}
    ELSE {Wrote(Response(TRUE), Without(store, "sms", data["_id"]),
                Deleted(rows, <<"sms", data["_id"][1], data["_id"][2]>>))}

\* Locale(req.data).create(): the _id is the key and ui_name is unique
locale_create(data) ==
    IF \/ data["_id"] \in DOMAIN locales
       \/ \E l \in DOMAIN locales : locales[l].name = data["name"]
    THEN {Kept(Error("DB_DUPLICATE", "locale"))}
    ELSE {[Kept(Response(TRUE)) EXCEPT
             !.locales = locales @@
                 (data["_id"] :> [archived |-> FALSE, name |-> data["name"]])]}

\* TemplateEmail.count(filter={'locale': _id}) or TemplateSMS.count(...)
LocaleInUse(id) == \E key \in DOMAIN rows : key[3] = id

\* locale_delete of service.py has no such test
LocaleChecked(v, id) == v = "v1" /\ LocaleInUse(id)

locale_delete(v, data) ==
    IF data["_id"] \notin DOMAIN locales
    THEN {Kept(Error("DB_NO_RECORD", <<data["_id"], "locale">>))}
    ELSE IF "archive" \in DOMAIN data /\ data["archive"]
    THEN {[Kept(Response(~locales[data["_id"]].archived)) EXCEPT
             !.locales = [locales EXCEPT ![data["_id"]].archived = TRUE]]}
    ELSE IF LocaleChecked(v, data["_id"])
    THEN {Kept(Error("DB_KEY_BEING_USED", <<data["_id"], "locale">>))}
    ELSE {[Kept(Response(TRUE)) EXCEPT
             !.locales = [l \in DOMAIN locales \ {data["_id"]} |-> locales[l]]]}

\* the test of _archived skipped
LocaleArchivedIgnored(id) == FALSE

\* if oLocale['_archived']:
LocaleArchived(id) == locales[id].archived

locale_update(data) ==
    IF data["_id"] \notin DOMAIN locales
    THEN {Kept(Error("DB_NO_RECORD", <<data["_id"], "locale">>))}
    ELSE IF LocaleArchived(data["_id"])
    THEN {Kept(Error("DB_ARCHIVED", <<data["_id"], "locale">>))}
    ELSE IF \E l \in DOMAIN locales \ {data["_id"]} :
                locales[l].name = data["name"]
    THEN {Kept(Error("DB_DUPLICATE", <<data["name"], "template">>))}
    ELSE {[Kept(Response(locales[data["_id"]].name # data["name"])) EXCEPT
             !.locales = [locales EXCEPT ![data["_id"]].name = data["name"]]]}

\* Template(req.data).create(): ui_name is unique; the template has no
\* content yet
template_create(data) ==
    IF data["name"] \in DOMAIN declared
    THEN {Kept(Error("DB_DUPLICATE", "template"))}
    ELSE {[Kept(Response(data["name"])) EXCEPT
             !.declared = declared @@ (data["name"] :> data["variables"]),
             !.store = store @@ (data["name"] :> NoDict)]}

\* the rows of a variant that are not of the template
RowsLeftUndeleted(rw, variant, id) == rw

\* TemplateEmail / TemplateSMS: every row of the template deleted
RowsLeft(rw, variant, id) ==
    [key \in {k \in DOMAIN rw : ~(k[1] = variant /\ k[2] = id)} |-> rw[key]]

\* the store with the content that has a row, and with the templates that
\* have a record or content
Stored(st, rw, dec) ==
    [t \in {n \in DOMAIN st : n \in DOMAIN dec \/ \E k \in DOMAIN rw : k[2] = n} |->
        [l \in {m \in DOMAIN st[t] :
                  \E k \in DOMAIN rw : k[2] = t /\ k[3] = m} |->
            [f \in {g \in DOMAIN st[t][l] :
                      \E k \in DOMAIN rw :
                          k[2] = t /\ k[3] = l /\ g \in VariantFields(k[1])} |->
                st[t][l][f]]]]

template_delete(data) ==
    IF data["_id"] \notin DOMAIN declared
    THEN {Kept(Error("DB_NO_RECORD", <<data["_id"], "template">>))}
    ELSE LET rw == RowsLeft(RowsLeft(rows, "email", data["_id"]),
                           "sms", data["_id"])
             dec == [n \in DOMAIN declared \ {data["_id"]} |-> declared[n]]
         IN {[Kept(Response(TRUE)) EXCEPT
                !.rows = rw, !.declared = dec,
                !.store = Stored(store, rw, dec)]}

\* a value of a request and whether the record accepts it for the field
Valid(val) == [ok |-> TRUE, v |-> val]
Invalid == [ok |-> FALSE, v |-> {}]

\* the keys of a template update that are left when those that cannot be
\* updated are removed
TemplateUpdatable(data) == DOMAIN data \ {"_id", "_created", "_updated"}

\* oTemplate[k] = req.data[k] for each k; a rejected value leaves the field
\* as it was, and lErrors is not looked at
template_update(data) ==
    IF data["_id"] \notin DOMAIN declared
    THEN {Kept(Error("DB_NO_RECORD", <<data["_id"], "template">>))}
    ELSE IF TemplateUpdatable(data) = {}
    THEN {Kept(Response(FALSE))}
    ELSE LET variables ==
                 IF "variables" \in DOMAIN data /\ data["variables"].ok
                 THEN data["variables"].v
                 ELSE declared[data["_id"]]
         IN {[Kept(Response(variables # declared[data["_id"]])) EXCEPT
                !.declared = [declared EXCEPT ![data["_id"]] = variables]]}

\* a request is served: its response is recorded and the store is what the
\* handler left
Serve(op, data, outcomes) ==
    \E o \in outcomes :
        /\ store' = o.store
        /\ rows' = o.rows
        /\ locales' = o.locales
        /\ declared' = o.declared
        /\ api' = [op |-> op, req |-> data, resp |-> o.resp]
        /\ UNCHANGED <<ver, heap, rnd, lookups, gc, inflight>>

\* a locale no record has
L0 == "de-DE"

\* Hi {x}, #g#{y}#a#, Bye
WriteTexts ==
    {<<"Hi ">> \o VarRef(X), TplRef(G) \o VarRef(Y) \o TplRef(A), <<"Bye">>}

\* a and b have a record each for en-US, nothing has one for fr-CA
WriteIds == {<<A, L1>>, <<B, L1>>, <<A, L2>>}

EmailCreates ==
    {"template" :> t @@ "locale" :> l @@ "subject" :> c @@ "text" :> <<"T">>
        @@ "html" :> <<"H">> :
        t \in {A, B, G}, l \in {L1, L0}, c \in WriteTexts}

SmsCreates ==
    {"template" :> t @@ "locale" :> l @@ "content" :> c :
        t \in {A, B, G}, l \in {L1, L0}, c \in WriteTexts}

\* the _id alone, or with an html, or with the subject #g# and the text
\* {y}, or with an html next to another template and locale
EmailUpdates ==
    {"_id" :> id @@ d :
        id \in WriteIds,
        d \in {NoDict, "subject" :> TplRef(G) @@ "text" :> VarRef(Y),
               "template" :> B @@ "locale" :> L2 @@ "html" :> <<"Bye">>}
              \cup {"html" :> c : c \in WriteTexts}}

SmsUpdates == {"_id" :> id @@ "content" :> c : id \in WriteIds, c \in WriteTexts}

TemplateEmailCreate ==
    \E data \in EmailCreates :
        Serve("template_email_create", data, template_email_create(data))

TemplateSmsCreate ==
    \E data \in SmsCreates :
        Serve("template_sms_create", data, template_sms_create(data))

TemplateEmailUpdate ==
    \E data \in EmailUpdates :
        Serve("template_email_update", data, template_email_update(data))

TemplateSmsUpdate ==
    \E data \in SmsUpdates :
        Serve("template_sms_update", data, template_sms_update(data))

TemplateEmailDelete ==
    \E data \in {"_id" :> id : id \in WriteIds} :
        Serve("template_email_delete", data, template_email_delete(data))

TemplateSmsDelete ==
    \E data \in {"_id" :> id : id \in WriteIds} :
        Serve("template_sms_delete", data, template_sms_delete(data))

\* a new locale, or one whose _id or name is taken
LocaleCreates == {"_id" :> id @@ "name" :> n : id \in {L1, L0}, n \in {L1, L0}}

LocaleCreate ==
    \E data \in LocaleCreates :
        Serve("locale_create", data, locale_create(data))

LocaleDeletes ==
    {"_id" :> id @@ a :
        id \in {L1, L2, L0}, a \in {NoDict, "archive" :> TRUE}}

LocaleDelete ==
    \E data \in LocaleDeletes :
        Serve("locale_delete", data, locale_delete(ver, data))

\* a new name, or the name of fr-CA
LocaleUpdates ==
    {"_id" :> id @@ "name" :> n : id \in {L1, L2, L0}, n \in {"English", L2}}

LocaleUpdate ==
    \E data \in LocaleUpdates :
        Serve("locale_update", data, locale_update(data))

TemplateCreate ==
    \E data \in {"name" :> n @@ "variables" :> {} : n \in {A, C}} :
        Serve("template_create", data, template_create(data))

TemplateDelete ==
    \E data \in {"_id" :> id : id \in {A, B, G}} :
        Serve("template_delete", data, template_delete(data))

\* the _id alone, or with accepted variables, with a rejected name, or
\* with both
TemplateUpdates ==
    {"_id" :> id @@ d :
        id \in {A, G},
        d \in {NoDict, "variables" :> Valid({X, Y}), "name" :> Invalid,
               "variables" :> Valid({X, Y}) @@ "name" :> Invalid,
               "variables" :> Invalid}}

TemplateUpdate ==
    \E data \in TemplateUpdates :
        Serve("template_update", data, template_update(data))

\* a has an email record and declares x, b has an SMS record and declares
\* nothing
InitCrud ==
    /\ ver \in {"v1", "v2"}
    /\ store = StorePartial
    /\ heap = <<>>
    /\ rnd = [r \in {} |-> NoDict]
    /\ lookups = [r \in {} |-> <<>>]
    /\ gc = GcOff
    /\ locales = [l \in {L1, L2} |-> [archived |-> FALSE, name |-> l]]
    /\ declared = (A :> {X}) @@ (B :> {})
    /\ api = ApiIdle
    /\ rows = RowsOf(store)
    /\ inflight = <<>>

NextCrud ==
    \/ TemplateEmailCreate
    \/ TemplateSmsCreate
    \/ TemplateEmailUpdate
    \/ TemplateSmsUpdate

\* the content operations, one request after another
SpecCrud == InitCrud /\ [][NextCrud]_vars

NextRows ==
    \/ TemplateEmailCreate
    \/ TemplateSmsCreate
    \/ TemplateEmailUpdate
    \/ TemplateSmsUpdate
    \/ TemplateEmailDelete
    \/ TemplateSmsDelete

\* the content operations with the deletes
SpecRows == InitCrud /\ [][NextRows]_vars

\* an SMS content `Bye` for a, in a locale that exists or not
SmsCreatesBye ==
    {"template" :> A @@ "locale" :> l @@ "content" :> <<"Bye">> :
        l \in {L1, L2, L0}}

SmsCreateBye ==
    \E data \in SmsCreatesBye :
        Serve("template_sms_create", data, template_sms_create(data))

NextLocale ==
    \/ LocaleCreate
    \/ LocaleDelete
    \/ LocaleUpdate
    \/ SmsCreateBye
    \/ TemplateSmsDelete

\* the locale operations, with SMS contents coming and going
SpecLocale == InitCrud /\ [][NextLocale]_vars

NextTemplate ==
    \/ TemplateCreate
    \/ TemplateDelete
    \/ TemplateUpdate
    \/ SmsCreateBye
    \/ TemplateSmsDelete

\* the template operations, with SMS contents coming and going
SpecTemplate == InitCrud /\ [][NextTemplate]_vars

-----------------------------------------------------------------------------
(* Two handlers at once.  A handler reads the records its tests are about,
   and writes in a later step; between the two the other handler may run.
   Each call of the record classes is one statement of the database, and
   no transaction spans two of them. *)

Racers == DOMAIN inflight

\* a request that has not begun
Waiting(op, data) ==
    [op |-> op, req |-> data, pc |-> "start", resp |-> Response(FALSE)]

\* the request of p has passed its tests, or has returned resp
Passed(p) == [inflight EXCEPT ![p].pc = "passed"]
Returned(p, resp) == [inflight EXCEPT ![p].pc = "done", ![p].resp = resp]

\* locale_delete up to the test of the contents: Locale.get and the counts
LocaleDeleteTests(p) ==
    LET data == inflight[p].req IN
    /\ inflight[p].op = "locale_delete"
    /\ inflight[p].pc = "start"
    /\ inflight' =
         IF data["_id"] \notin DOMAIN locales
         THEN Returned(p, Error("DB_NO_RECORD", <<data["_id"], "locale">>))
         ELSE IF ~("archive" \in DOMAIN data /\ data["archive"])
                 /\ LocaleChecked(ver, data["_id"])
         THEN Returned(p, Error("DB_KEY_BEING_USED", <<data["_id"], "locale">>))
         ELSE Passed(p)
    /\ UNCHANGED <<ver, store, heap, rnd, lookups, gc, locales, declared, api,
                   rows>>

\* locale_delete from there: oLocale.save() or oLocale.delete()
LocaleDeleteWrites(p) ==
    LET data == inflight[p].req IN
    /\ inflight[p].op = "locale_delete"
    /\ inflight[p].pc = "passed"
    /\ locales' =
         IF "archive" \in DOMAIN data /\ data["archive"]
         THEN IF data["_id"] \in DOMAIN locales
              THEN [locales EXCEPT ![data["_id"]].archived = TRUE]
              ELSE locales
         ELSE [l \in DOMAIN locales \ {data["_id"]} |-> locales[l]]
    /\ inflight' = Returned(p, Response(TRUE))
    /\ UNCHANGED <<ver, store, heap, rnd, lookups, gc, declared, api, rows>>

\* a content create up to the test of the locale: Template.get and
\* Locale.exists
ContentCreateTests(p) ==
    LET data == inflight[p].req IN
    /\ inflight[p].op \in {"template_email_create", "template_sms_create"}
    /\ inflight[p].pc = "start"
    /\ inflight' =
         IF CreateRefused(data) # {}
         THEN Returned(p, CHOOSE e \in CreateRefused(data) : TRUE)
         ELSE Passed(p)
    /\ UNCHANGED <<ver, store, heap, rnd, lookups, gc, locales, declared, api,
                   rows>>

\* a content create from there: the validation and create()
ContentCreateWrites(p) ==
    LET data == inflight[p].req
        email == inflight[p].op = "template_email_create"
    IN
    /\ inflight[p].op \in {"template_email_create", "template_sms_create"}
    /\ inflight[p].pc = "passed"
    /\ \E lErrors \in checkTemplateContent(
                          data, IF email THEN EmailFields ELSE <<"content">>,
                          declared[data["template"]], store) :
         LET o == Create(data, lErrors, IF email THEN "email" ELSE "sms",
                         IF email THEN ContentOf(data, Range(EmailFields))
                                  ELSE SmsField(data))
         IN /\ store' = o.store
            /\ rows' = o.rows
            /\ inflight' = Returned(p, o.resp)
    /\ UNCHANGED <<ver, heap, rnd, lookups, gc, locales, declared, api>>

\* a locale_delete next to a create of content, for the same locale or not
RaceCalls ==
    {<<Waiting("locale_delete", d), Waiting("template_email_create", c)>> :
        d \in LocaleDeletes, c \in EmailCreates}
    \cup {<<Waiting("locale_delete", d), Waiting("template_sms_create", c)>> :
        d \in LocaleDeletes, c \in SmsCreates \cup SmsCreatesBye}

InitRace ==
    /\ ver \in {"v1", "v2"}
    /\ store = StorePartial
    /\ heap = <<>>
    /\ rnd = [r \in {} |-> NoDict]
    /\ lookups = [r \in {} |-> <<>>]
    /\ gc = GcOff
    /\ locales = [l \in {L1, L2} |-> [archived |-> FALSE, name |-> l]]
    /\ declared = (A :> {X}) @@ (B :> {})
    /\ api = ApiIdle
    /\ rows = RowsOf(store)
    /\ inflight \in RaceCalls

NextRace ==
    \/ \E p \in Racers : LocaleDeleteTests(p)
    \/ \E p \in Racers : LocaleDeleteWrites(p)
    \/ \E p \in Racers : ContentCreateTests(p)
    \/ \E p \in Racers : ContentCreateWrites(p)

\* a locale_delete and a create of content, interleaved at will
SpecRace == InitRace /\ [][NextRace]_vars

-----------------------------------------------------------------------------
(* _email and _sms: the configuration is self._dEmail / self._dSMS, the
   transport is em.send (SMTP.send in __init__.py) and Twilio's
   messages.create.  A handed message is recorded with the address it was
   handed for. *)

\* a list of the configuration, or None
NoneList == [none |-> TRUE, items |-> {}]
ListOf(S) == [none |-> FALSE, items |-> S]

\* the gate left open
AllowedAlways(allowed, to) == TRUE

\* not allowed or opts['to'] in allowed
Allowed(allowed, to) ==
    allowed.none \/ allowed.items = {} \/ to \in allowed.items

\* 'override' in cfg and cfg['override'] or opts['to']
Recipient(cfg, to) ==
    IF "override" \in DOMAIN cfg /\ cfg["override"] # "" THEN cfg["override"]
    ELSE to

\* what a call gives back: a dict with success, a Response or Error
\* object, an exception, or None
Dict(success) == [kind |-> "dict", success |-> success]
NotADict(kind) == [kind |-> kind, success |-> FALSE]

\* the result of the call and the messages handed to the transport
Sent(result, msgs) == [result |-> result, sent |-> msgs]

\* _email: attachments that are not well formed end the call before the
\* gate, with an Error object in __init__.py and a ResponseException in
\* service.py
email_send(v, cfg, opts, iRes) ==
    IF "attachments" \in DOMAIN opts /\ opts["attachments"] = "malformed"
    THEN Sent(NotADict(IF v = "v1" THEN "response" ELSE "raise"), <<>>)
    ELSE IF Allowed(cfg["allowed"], opts["to"])
    THEN Sent(Dict(iRes = "OK"),
              <<[via |-> "smtp", to |-> Recipient(cfg, opts["to"])]>>)
    ELSE Sent(Dict(TRUE), <<>>)

\* _sms: the function ends without a return when the gate is closed
sms_send(cfg, opts, dRes) ==
    IF Allowed(cfg["allowed"], opts["to"])
    THEN Sent(Dict(dRes = "OK"),
              <<[via |-> "twilio", to |-> Recipient(cfg, opts["to"])]>>)
    ELSE Sent(NotADict("none"), <<>>)

\* the allowed lists and overrides of a configuration: the override is
\* unset, None or an address
Configs ==
    {("allowed" :> al) @@ o :
        al \in {NoneList, ListOf({}), ListOf({"ann"}), ListOf({"ann", "bob"})},
        o \in {NoDict, "override" :> "", "override" :> "dev"}}

EmailOpts ==
    {("to" :> to) @@ at :
        to \in {"ann", "bob", "cy"},
        at \in {NoDict, "attachments" :> "wellformed",
                "attachments" :> "malformed"}}

SmsOpts == {"to" :> to : to \in {"ann", "bob", "cy"}}

\* the harness of _email: one call, the transport succeeding or not
SendEmail ==
    \E cfg \in Configs, opts \in EmailOpts, iRes \in {"OK", "failed"} :
        /\ api.op = "none"
        /\ api' = [op |-> "_email", req |-> [cfg |-> cfg, opts |-> opts],
                   resp |-> email_send(ver, cfg, opts, iRes)]
        /\ UNCHANGED <<ver, store, heap, rnd, lookups, gc, locales, declared, rows,
                       inflight>>

\* the harness of _sms: one call, Twilio succeeding or raising
\* TwilioRestException
SendSms ==
    \E cfg \in Configs, opts \in SmsOpts, dRes \in {"OK", "failed"} :
        /\ api.op = "none"
        /\ api' = [op |-> "_sms", req |-> [cfg |-> cfg, opts |-> opts],
                   resp |-> sms_send(cfg, opts, dRes)]
        /\ UNCHANGED <<ver, store, heap, rnd, lookups, gc, locales, declared, rows,
                       inflight>>

NextSend ==
    \/ SendEmail
    \/ SendSms

\* _email and _sms alone, on drawn configurations and recipients
SpecSend == InitCheck /\ [][NextSend]_vars

-----------------------------------------------------------------------------
(* Claims *)

NoDup(q) == \A i, j \in 1..Len(q) : q[i] = q[j] => i = j

Done(r) == rnd[r].st = "done"

\* C1: a render whose references form a cycle (a template that embeds
\* itself, or two that embed each other) returns a result after a bounded
\* number of recursive calls; it never ends in the interpreter's
\* RecursionError.
C1_CyclicRenderReturns ==
    \A r \in Procs : ~(rnd[r].st = "raised" /\ rnd[r].exc = "RecursionError")

\* C2: in __init__.py every recursive call works on the templates object of
\* its caller, so a finished top-level render has looked up each embedded
\* template name in the store at most once.
C2_LookedUpOnce ==
    \A r \in Procs : (ver = "v1" /\ Done(r)) => NoDup(lookups[r])

\* C3: two top-level renders never share a resolution cache: every frame of
\* a render, at any depth, works on a templates object that was allocated by
\* that same top-level call, so no entry written by one render is read by
\* the other, whether they run one after the other or interleaved.
C3_CachesNotShared ==
    \A r \in Procs : \A k \in 1..Depth(r) :
        heap[rnd[r].stack[k].tpl].owner = r

\* C3's case: both renders are under way, each has cached its own entry for
\* the same name, and the two entries differ
C3_Witness ==
    /\ Procs = {1, 2}
    /\ \A r \in Procs : Running(r)
    /\ \E i, j \in 1..Len(heap) :
          /\ heap[i].owner = 1
          /\ heap[j].owner = 2
          /\ \E n \in DOMAIN heap[i].d \cap DOMAIN heap[j].d :
                heap[i].d[n] # heap[j].d[n]

\* the names a render has looked up that are not in the store
MissingSeen(r) == {n \in Range(lookups[r]) : n \notin DOMAIN store}

\* the text an SMS render puts in place of a reference to a missing template
MissingSms(v, n) ==
    IF v = "v1" THEN <<"!!!", "#">> \o n \o <<"#", " does not exist!!!">>
                ELSE <<"!!!", "#">> \o n \o <<"#", "!!!">>

\* no reference to a template of the store, no reference to a bound
\* variable and no conditional block is left in the text
Rendered(r, text) ==
    /\ \A n \in DOMAIN store : ~Contains(text, TplRef(n))
    /\ \A n \in DOMAIN rnd[r].variables : ~Contains(text, VarRef(n))
    /\ ~Contains(text, <<"[", "if", " ">>)

\* C4: an SMS render that meets a reference to a template that does not
\* exist does not raise; its result holds the marker with the name, and the
\* other references, the variables and the conditionals are rendered.
C4_MissingSmsTemplate ==
    \A r \in Procs :
        (rnd[r].kind = "sms" /\ MissingSeen(r) # {}) =>
            /\ rnd[r].st # "raised"
            /\ Done(r) =>
                 /\ \A n \in MissingSeen(r) :
                        Contains(rnd[r].result["content"], MissingSms(ver, n))
                 /\ Rendered(r, rnd[r].result["content"])

\* C4's case: a finished SMS render that met the missing template g, next
\* to a bound variable and an embedded template that exists
C4_Witness ==
    \E r \in Procs :
        /\ rnd[r].kind = "sms"
        /\ Done(r)
        /\ G \in MissingSeen(r)
        /\ Contains(rnd[r].content["content"], VarRef(X))
        /\ Contains(rnd[r].result["content"], Sam \o MissingSms(ver, G))

\* the names a render has looked up that exist without content of its kind
\* for its locale
NoContentSeen(r) ==
    {n \in Range(lookups[r]) :
        /\ n \in DOMAIN store
        /\ Entry(ver, rnd[r].kind, store, n, rnd[r].locale).do = "value"}

\* C5: in _generate_email of service.py a reference to a template that does
\* not exist does not raise: once the name has been looked up, templates
\* holds an entry for it whose subject, text and html each embed the name.
C5_MissingEmailCached ==
    \A r \in Procs :
        (ver = "v2" /\ rnd[r].kind = "email") =>
            \A n \in MissingSeen(r) :
                /\ rnd[r].st # "raised"
                /\ \E k \in 1..Len(heap) :
                      /\ heap[k].owner = r
                      /\ n \in DOMAIN heap[k].d
                      /\ \A f \in {"subject", "text", "html"} :
                            Contains(heap[k].d[n][f], TplRef(n))

\* C6: a reference to a template that exists without content for the locale
\* does not raise (__init__.py, email and SMS; service.py, SMS); the
\* result holds a marker with the name and the locale code, and the store
\* is as it was.
C6_MissingLocaleContent ==
    \A r \in Procs :
        ((ver = "v1" \/ rnd[r].kind = "sms") /\ NoContentSeen(r) # {}) =>
            /\ rnd[r].st # "raised"
            /\ store \in AcyclicStores
            /\ Done(r) =>
                 \A n \in NoContentSeen(r) :
                     \E f \in DOMAIN rnd[r].result :
                         Contains(rnd[r].result[f],
                                  <<"!!!", "#">> \o n \o <<".", rnd[r].locale>>)

\* C6's case: a finished email render of __init__.py whose subject embeds c,
\* which has content for fr-CA only
C6_Witness ==
    \E r \in Procs :
        /\ ver = "v1"
        /\ rnd[r].kind = "email"
        /\ Done(r)
        /\ C \in NoContentSeen(r)
        /\ rnd[r].result["subject"] =
               <<"!!!", "#", "c", ".", "en-US", "#", " does not exist!!!">>

\* template n has content of field f for the locale
HasField(st, n, locale, f) ==
    /\ n \in DOMAIN st
    /\ locale \in DOMAIN st[n]
    /\ f \in DOMAIN st[n][locale]

RECURSIVE RenderOf(_, _, _, _, _, _)
RECURSIVE EmbedAll(_, _, _, _, _, _, _, _)

\* content with each reference of found, from the i-th on, replaced by the
\* rendering of field f of the template it names
EmbedAll(v, st, content, found, i, f, locale, variables) ==
    IF i > Len(found) THEN content
    ELSE EmbedAll(v, st,
             Replace(content, TplRef(found[i]),
                     RenderOf(v, st, st[found[i]][locale][f], f,
                              locale, variables)),
             found, i + 1, f, locale, variables)

\* what rendering means for a content of field f all of whose references
\* resolve: embed the renderings of the references, then substitute and
\* evaluate
RenderOf(v, st, content, f, locale, variables) ==
    GenerateContent(v,
        EmbedAll(v, st, content, re_tpl_findall(content), 1, f, locale,
                 variables),
        variables).val

\* C7: when every template a finished SMS render has looked up has content
\* for the locale, each `#name#` stands replaced by the rendering of that
\* content with the same locale and bindings; greeting `Hello {x}, #a#`
\* with a = `Bye!` and x = Sam renders to `Hello Sam, Bye!`.
C7_EmbeddedRender ==
    \A r \in Procs :
        (/\ rnd[r].kind = "sms"
         /\ Done(r)
         /\ lookups[r] # <<>>
         /\ \A n \in Range(lookups[r]) :
                HasField(store, n, rnd[r].locale, "sms")) =>
            /\ rnd[r].result["content"] =
                   RenderOf(ver, store, rnd[r].content["content"], "sms",
                            rnd[r].locale, rnd[r].variables)
            /\ (/\ store = StoreEmbed
                /\ rnd[r].content["content"] = Greeting
                /\ rnd[r].variables = X :> StrV(Sam)) =>
                   rnd[r].result["content"] =
                       <<"Hello ", "S", "a", "m", ", ", "Bye!">>

\* C7's case: the greeting rendered by __init__.py
C7_Witness ==
    \E r \in Procs :
        /\ ver = "v1"
        /\ rnd[r].kind = "sms"
        /\ store = StoreEmbed
        /\ rnd[r].content["content"] = Greeting
        /\ rnd[r].variables = X :> StrV(Sam)
        /\ lookups[r] = <<A>>
        /\ Done(r)
        /\ rnd[r].result["content"] = <<"Hello ", "S", "a", "m", ", ", "Bye!">>

\* C8: _generate_email of service.py processes each field on its own: when
\* every template looked up has the three fields for the locale, field f
\* of the result is field f of the content with each `#name#` replaced by
\* field f of the rendering of name, passed once through substitution and
\* the conditionals.
C8_FieldsIndependent ==
    \A r \in Procs :
        (/\ ver = "v2"
         /\ rnd[r].kind = "email"
         /\ Done(r)
         /\ lookups[r] # <<>>
         /\ \A n \in Range(lookups[r]) : \A f \in {"subject", "text", "html"} :
                HasField(store, n, rnd[r].locale, f)) =>
            \A f \in DOMAIN rnd[r].content :
                rnd[r].result[f] =
                    RenderOf(ver, store, rnd[r].content[f], f,
                             rnd[r].locale, rnd[r].variables)

\* C9: for a name the bindings hold, whatever scalar it is bound to,
\* _generate_content does not raise, leaves no `{name}` and puts no
\* missing-variable marker for it.
C9_BoundNameReplaced ==
    \A n \in {X, Y} :
        (/\ gc.st = "out"
         /\ n \in DOMAIN gc.variables
         /\ Contains(gc.content, VarRef(n))) =>
            /\ ~gc.out.raised
            /\ ~Contains(gc.out.val, VarRef(n))
            /\ ~Contains(gc.out.val, MissingVar(ver, n))

\* C10: for a name the bindings lack, _generate_content of __init__.py does
\* not raise and the output holds one marker for each of the k >= 1
\* occurrences of `{name}`, none of them inside another marker.
C10_OneMarkerEach ==
    \A n \in {X, Y} :
        (/\ ver = "v1"
         /\ gc.st = "out"
         /\ n \notin DOMAIN gc.variables
         /\ Contains(gc.content, VarRef(n))) =>
            /\ ~gc.out.raised
            /\ Count(gc.out.val, MissingVar(ver, n)) =
                   Count(gc.content, VarRef(n))
            /\ ~Contains(gc.out.val, <<"!!!">> \o MissingVar(ver, n))

\* the values of the drawn bindings that count as true: a non-empty string,
\* a non-zero number, true
TruthyValues == {StrV(Sam), IntV(17), IntV(18), BoolV(TRUE)}

XIsTrue == X \in DOMAIN gc.variables /\ gc.variables[X] \in TruthyValues

\* C11: a block without an operator clause is replaced by its consequent
\* when the variable is bound to a truthy value and otherwise by its
\* alternate, or by nothing when it has no else part: every `[if x]Yes
\* [else]No[fi]` and `[if x]Yes[fi]` of the content has gone from the output,
\* which holds one Yes per block when x is truthy, and one No per block
\* with an else part when x is falsy or not bound.
C11_NoOperatorBlock ==
    /\ (gc.st = "out" /\ \A i \in 1..Len(gc.content) : gc.content[i] \notin Ops)
           => ~gc.out.raised
    /\ (gc.st = "out" /\ ~gc.out.raised) =>
        /\ ~Contains(gc.out.val, <<"[", "if", " ", "x", "]">>)
        /\ Count(gc.out.val, <<"Yes">>) =
               IF XIsTrue
               THEN Count(gc.content, IfElse) + Count(gc.content, IfOnly)
               ELSE 0
        /\ Count(gc.out.val, <<"No">>) =
               IF XIsTrue THEN 0 ELSE Count(gc.content, IfElse)
        /\ gc.content = IfElse =>
               gc.out.val = IF XIsTrue THEN <<"Yes">> ELSE <<"No">>
        /\ gc.content = IfOnly =>
               gc.out.val = IF XIsTrue THEN <<"Yes">> ELSE <<>>

\* C11's case: the block with an else part evaluated for x bound to false
C11_Witness ==
    /\ gc.st = "out"
    /\ gc.content = IfElse
    /\ gc.variables = X :> BoolV(FALSE)
    /\ gc.out = Ok(<<"No">>)

XIsNumber == X \in DOMAIN gc.variables /\ gc.variables[X].t = "int"

\* C12: for a block with an operator clause, a variable bound to a number
\* and a numeric VALUE, _generate_content does not raise and puts the
\* consequent when the comparison holds and the alternate when it does
\* not: `[if x >= 18]Adult[else]Minor[fi]` gives Adult for 18 and Minor
\* for 17.
C12_NumericComparison ==
    (gc.st = "out" /\ XIsNumber /\ gc.content = OpGe) =>
        /\ ~gc.out.raised
        /\ gc.out.val = IF gc.variables[X].v >= 18 THEN <<"Adult">>
                                                   ELSE <<"Minor">>

\* the positions of the `if` of the blocks of text s that test name n with
\* an operator clause
OpBlocksOn(s, n) ==
    {i \in 1..Len(s) :
        /\ s[i] = "if"
        /\ i + 4 <= Len(s)
        /\ <<s[i + 2]>> = n
        /\ s[i + 4] \in Ops}

Unbound(n) == n \notin DOMAIN gc.variables

\* C13: a block with an operator clause on a name the bindings lack is
\* replaced by the marker naming it; that block makes nothing raise (a
\* content all of whose operator clauses test unbound names returns), and
\* the blocks after it are evaluated: none is left in the output.
C13_UnboundInCondition ==
    \A n \in {X, Y} :
        (gc.st = "out" /\ Unbound(n) /\ OpBlocksOn(gc.content, n) # {}) =>
            /\ (\A k \in {X, Y} : OpBlocksOn(gc.content, k) # {} => Unbound(k))
                   => ~gc.out.raised
            /\ ~gc.out.raised =>
                   /\ Count(gc.out.val,
                                <<"INVALID VARIABLE (">> \o n
                                    \o <<") IN CONDITIONAL">>) =
                          Cardinality(OpBlocksOn(gc.content, n))
                   /\ \A i \in 1..Len(gc.out.val) : gc.out.val[i] # "if"
            /\ (gc.content = OpNeY \o IfElse /\ Unbound(X)) =>
                   gc.out = Ok(<<"INVALID VARIABLE (", "y", ") IN CONDITIONAL",
                                 "No">>)

\* C13's case: y is not bound and a block without operator follows
C13_Witness ==
    /\ gc.st = "out"
    /\ gc.content = OpNeY \o IfElse
    /\ gc.variables = NoVars
    /\ gc.out = Ok(<<"INVALID VARIABLE (", "y", ") IN CONDITIONAL", "No">>)

\* C14: a VALUE that cannot be coerced to the type of the bound value (Sam
\* for a number, Sam for null) raises nothing: the block is replaced by the
\* marker naming the variable and the block after it is evaluated.
C14_CoercionFailure ==
    (/\ gc.st = "out"
     /\ X \in DOMAIN gc.variables
     /\ gc.variables[X].t \in {"int", "none"}
     /\ gc.content \in {OpEqSam, OpEqSam \o IfOnly}) =>
        /\ ~gc.out.raised
        /\ gc.out.val =
               <<"x", " HAS INVALID VALUE IN CONDITIONAL">>
                   \o (IF gc.content = OpEqSam \/ ~XIsTrue THEN <<>>
                       ELSE <<"Yes">>)

\* C15: an ordering operator whose operands are not ordered with each
\* other (`x < $NULL`) raises nothing: the comparison fails and the block,
\* which has no else part, is replaced by the empty string.
C15_UnorderedComparison ==
    (/\ gc.st = "out"
     /\ X \in DOMAIN gc.variables
     /\ gc.content = OpLtNull) =>
        gc.out = Ok(<<>>)

\* C16: `$EMPTY` stands for the empty string and is compared with the bound
\* value as it is, whatever its type: `[if x == $EMPTY]E[else]N[fi]` gives
\* E exactly when x is bound to the empty string, N for every other bound
\* value, and never an invalid-value marker, whenever the call returns.
C16_ReservedLiterals ==
    (/\ gc.st = "out"
     /\ X \in DOMAIN gc.variables
     /\ gc.content = OpEqEmpty
     /\ ~gc.out.raised) =>
        gc.out.val = IF gc.variables[X] = StrV(<<>>) THEN <<"E">> ELSE <<"N">>

\* the result of a finished SMS render, <<"?">> while it has none
ResultOf(r) == IF Done(r) THEN rnd[r].result["content"] ELSE <<"?">>

\* a finished SMS render of content c under bindings b resulted in text
Gives(store0, c, b, text) ==
    \A r \in Procs :
        (/\ store = store0
         /\ rnd[r].content["content"] = c
         /\ rnd[r].variables = b
         /\ Done(r)) => ResultOf(r) = text

\* the content of render r with its references embedded
Embedded(r) ==
    EmbedAll(ver, store, rnd[r].content["content"],
             re_tpl_findall(rnd[r].content["content"]), 1, "sms",
             rnd[r].locale, rnd[r].variables)

\* the variable pass over that text
Substituted(r) ==
    SubstituteVars(ver, Embedded(r), re_data_findall(Embedded(r)),
                   rnd[r].variables)

\* the blocks pass over that text
Evaluated(r) ==
    Conditionals(ver, Substituted(r), re_if_else_finditer(Substituted(r)),
                 rnd[r].variables).val

\* C17: references are embedded, then variables are substituted over the
\* whole field, then the blocks are evaluated.  A value that reads `#a#`
\* is not embedded, a value that reads `[if y]Yes[fi]` is evaluated, the
\* branch `{x}` of a block comes out with the value of x, and every
\* finished render is the blocks pass of the variable pass of the content
\* with its references embedded.
C17_PassOrder ==
    /\ Gives(StoreEmbed, TplRef(A) \o VarRef(X), X :> StrV(TplRef(A)) @@ Yo,
             <<"Bye!", "#", "a", "#">>)
    /\ Gives(StoreEmbed, VarRef(X), X :> StrV(IfY) @@ Yo, <<"Yes">>)
    /\ Gives(StoreEmbed, VarRef(X), X :> StrV(IfY), <<>>)
    /\ Gives(StoreEmbed, IfVar, X :> StrV(Sam) @@ Yo, Sam)
    /\ Gives(StoreEmbed, TplRef(B), X :> StrV(IfY) @@ Yo,
             <<"Hello ", "Yes", ", ", "Bye!">>)
    /\ Gives(StoreDiamond, TplRef(C) \o TplRef(C), X :> StrV(Sam) @@ Yo,
             <<"C", "Yo", "C", "Yo">>)
    /\ \A r \in Procs :
           (Done(r) /\ \A n \in Range(lookups[r]) :
                           HasField(store, n, rnd[r].locale, "sms")) =>
               ResultOf(r) = Evaluated(r)

\* C17's case: the variable pass has put a block, which the blocks pass has
\* evaluated
C17_Witness ==
    \E r \in Procs :
        /\ store = StoreEmbed
        /\ rnd[r].content["content"] = TplRef(B)
        /\ rnd[r].variables = X :> StrV(IfY) @@ Yo
        /\ Done(r)
        /\ ResultOf(r) = <<"Hello ", "Yes", ", ", "Bye!">>

\* text holds no `{name}`, no `#name#` and no conditional block
Plain(text) ==
    /\ re_data_findall(text) = <<>>
    /\ re_tpl_findall(text) = <<>>
    /\ re_if_else_finditer(text) = <<>>

\* C18: a render whose content holds no variable reference, no template
\* reference and no block looks nothing up in the store, does not raise, and
\* results in the content as it is, on every store and under every
\* bindings.
C18_PlainContentVerbatim ==
    \A r \in Procs :
        (\A f \in DOMAIN rnd[r].content : Plain(rnd[r].content[f])) =>
            /\ lookups[r] = <<>>
            /\ rnd[r].st # "raised"
            /\ Done(r) =>
                   \A f \in DOMAIN rnd[r].content :
                       rnd[r].result[f] = rnd[r].content[f]

\* C18's case: a finished SMS render of `Hi  #{}[if]` on the store with
\* cyclic references under bindings that hold x
C18_Witness ==
    \E r \in Procs :
        /\ store = StoreCycle
        /\ rnd[r].kind = "sms"
        /\ rnd[r].content["content"] = <<"Hi ">> \o Loose
        /\ X \in DOMAIN rnd[r].variables
        /\ Done(r)
        /\ rnd[r].result["content"] = <<"Hi ">> \o Loose

\* the names a text of CheckTexts can refer to
Referable == {A, B, C, G, X, Y}

\* the names that occur between `open` and `close` in a scanned field
ReferredTo(req, open, close) ==
    {n \in Referable :
        \E k \in Range(req.names) \cap DOMAIN req.content :
            Contains(req.content[k], <<open>> \o n \o <<close>>)}

MissingTemplates(req) == ReferredTo(req, "#", "#") \ DOMAIN store

UndeclaredVariables(req) == ReferredTo(req, "{", "}") \ req.variables

\* C19: the list _checkTemplateContent returns holds one `template` entry
\* for each distinct #name# of the scanned fields whose template does not
\* exist, one `variable` entry for each distinct {name} that is not
\* declared, and nothing else; a field of names that the content lacks is
\* skipped; the list is empty exactly when no template is missing and no
\* variable is undeclared.
C19_CheckTemplateContent ==
    api.op = "check" =>
        LET lErrors == api.resp.data
            tpls == MissingTemplates(api.req)
            vars_ == UndeclaredVariables(api.req)
        IN /\ Range(lErrors) = {<<"template", n>> : n \in tpls}
                                 \cup {<<"variable", n>> : n \in vars_}
           /\ Len(lErrors) = Cardinality(tpls) + Cardinality(vars_)
           /\ lErrors = <<>> <=> (tpls = {} /\ vars_ = {})

\* #g#{y}#g# as the subject of a content without html, x declared: g and y
\* are each reported once
C19_Witness ==
    /\ api.op = "check"
    /\ api.req.names = EmailFields
    /\ DOMAIN api.req.content = {"subject", "text"}
    /\ api.req.content["subject"] = TplRef(G) \o VarRef(Y) \o TplRef(G)
    /\ api.req.content["text"] = TplRef(G) \o VarRef(Y) \o TplRef(G)
    /\ api.req.variables = {X}
    /\ api.resp.data = << <<"template", G>>, <<"variable", Y>> >>

WriteOps ==
    {"template_email_create", "template_sms_create", "template_email_update",
     "template_sms_update"}

\* the template whose content the request a writes
WrittenTemplate(a) ==
    IF a.op \in {"template_email_create", "template_sms_create"}
    THEN a.req["template"]
    ELSE a.req["_id"][1]

\* the request a gets as far as the validation of its content
ReachesValidation(a) ==
    CASE a.op \in {"template_email_create", "template_sms_create"} ->
            /\ a.req["template"] \in DOMAIN store
            /\ a.req["locale"] \in DOMAIN locales
      [] a.op = "template_email_update" ->
            /\ HasEmail(store, a.req["_id"])
            /\ DOMAIN a.req \cap Range(EmailFields) # {}
      [] a.op = "template_sms_update" -> HasSms(store, a.req["_id"])

\* what the validation of the request a is called on
ValidationOf(a) ==
    [content |-> a.req,
     names |-> IF a.op \in {"template_email_create", "template_email_update"}
               THEN EmailFields ELSE <<"content">>,
     variables |-> declared[WrittenTemplate(a)]]

\* the violations in the content of the request a
ViolationsOf(a) ==
    {<<"template", n>> : n \in MissingTemplates(ValidationOf(a))}
    \cup {<<"variable", n>> : n \in UndeclaredVariables(ValidationOf(a))}

\* C20: when one of template_email_create, template_sms_create,
\* template_email_update and template_sms_update reaches the validation of
\* its content and the content has a violation, the response is
\* TEMPLATE_CONTENT_ERROR with the list of the violations and the stored
\* content records are those of before the call.
C20_RejectedWrite ==
    [][(/\ api'.op \in WriteOps
        /\ ReachesValidation(api')
        /\ ViolationsOf(api') # {})
       => /\ api'.resp.err = "TEMPLATE_CONTENT_ERROR"
          /\ Range(api'.resp.data) = ViolationsOf(api')
          /\ Len(api'.resp.data) = Cardinality(ViolationsOf(api'))
          /\ store' = store]_vars

\* an update of a's SMS content to #g#{y}#a#, refused after other writes
\* went through
C20_Witness ==
    /\ api.op = "template_sms_update"
    /\ api.req["_id"] = <<A, L1>>
    /\ api.resp = Error("TEMPLATE_CONTENT_ERROR",
                        << <<"template", G>>, <<"variable", Y>> >>)
    /\ store[A][L1]["sms"] = <<"Bye">>
    /\ "html" \in DOMAIN store[A][L1]

\* the atoms only the error markers hold
MarkerAtoms == {"!!!", "INVALID VARIABLE (", " HAS INVALID VALUE IN CONDITIONAL"}

HasMarker(text) == \E i \in 1..Len(text) : text[i] \in MarkerAtoms

\* the names the bindings of the render r give a non-empty string
BoundToText(r) ==
    {n \in DOMAIN rnd[r].variables :
        rnd[r].variables[n].t = "str" /\ rnd[r].variables[n].v # <<>>}

\* C21: when _checkTemplateContent finds nothing wrong in a content, for
\* declared variables that the bindings all give a non-empty string, the
\* SMS rendered from that content for an existing locale on the same store
\* holds no error marker.
C21_ValidatedRendersClean ==
    \A r \in Procs :
        (/\ ver = "v1"
         /\ rnd[r].kind = "sms"
         /\ Done(r)
         /\ rnd[r].locale \in DOMAIN locales
         /\ <<>> \in checkTemplateContent(rnd[r].content, <<"content">>,
                                          BoundToText(r), store))
        => ~HasMarker(rnd[r].result["content"])

\* every row of the content tables is of a locale that exists
ContentLocalesExist == \A key \in DOMAIN rows : key[3] \in DOMAIN locales

\* C22: under service.py a locale that an email or SMS content refers to
\* is never deleted, so that after any sequence of operations every stored
\* content refers to a locale that exists.
C22_LocaleInUseKept == ver = "v2" => ContentLocalesExist

\* the request a is a locale_update of a locale that is archived
UpdatesArchived(a) ==
    /\ a.op = "locale_update"
    /\ a.req["_id"] \in DOMAIN locales
    /\ locales[a.req["_id"]].archived

\* C23: locale_update on a locale whose _archived flag is set returns
\* DB_ARCHIVED and leaves the Locale records as they are; and no operation
\* clears the flag: a locale that is archived is archived after every step
\* that does not delete it.
C23_ArchivedLocale ==
    [][/\ UpdatesArchived(api') =>
            /\ api'.resp = Error("DB_ARCHIVED", <<api'.req["_id"], "locale">>)
            /\ locales' = locales
       /\ \A l \in DOMAIN locales \cap DOMAIN locales' :
            locales[l].archived => locales'[l].archived]_vars

\* en-US was renamed, then archived, and an update of its name is refused
C23_Witness ==
    /\ api.op = "locale_update"
    /\ api.req["_id"] = L1
    /\ api.req["name"] = L2
    /\ api.resp.err = "DB_ARCHIVED"
    /\ locales[L1] = [archived |-> TRUE, name |-> "English"]

\* the content operations that create, and those that update
CreateOps == {"template_email_create", "template_sms_create"}
UpdateOps == {"template_email_update", "template_sms_update"}

\* the variant the request a is about
VariantOf(a) ==
    IF a.op \in {"template_email_create", "template_email_update"}
    THEN "email" ELSE "sms"

OthersOf(rw, st, id) ==
    <<[key \in {k \in DOMAIN rw : k[2] # id} |-> rw[key]],
      [t \in DOMAIN st \ {id} |-> st[t]]>>

\* C28: a template_delete of a template that exists leaves no email and no
\* SMS content of that template and leaves the content of every other
\* template as it was; a template_delete of a template that does not exist
\* returns DB_NO_RECORD and deletes nothing.
C28_TemplateDeleteCascades ==
    [][api'.op = "template_delete" =>
         IF api'.req["_id"] \in DOMAIN declared
         THEN /\ api'.resp = Response(TRUE)
              /\ api'.req["_id"] \notin DOMAIN declared'
              /\ \A key \in DOMAIN rows' : key[2] # api'.req["_id"]
              /\ api'.req["_id"] \notin DOMAIN store'
              /\ OthersOf(rows', store', api'.req["_id"])
                   = OthersOf(rows, store, api'.req["_id"])
         ELSE /\ api'.resp = Error("DB_NO_RECORD",
                                   <<api'.req["_id"], "template">>)
              /\ <<store', rows', declared'>> = <<store, rows, declared>>]_vars

\* a, which had content, was deleted: no row of a is left and the SMS
\* content of b is still there
C28_Witness ==
    /\ api.op = "template_delete"
    /\ api.req["_id"] = A
    /\ api.resp = Response(TRUE)
    /\ A \notin DOMAIN declared
    /\ rows = (<<"sms", B, L1>> :> 1)
    /\ store = (B :> StorePartial[B])

\* the request a is a template_update with a value that the record rejects
UpdateRejected(a) ==
    /\ a.op = "template_update"
    /\ a.req["_id"] \in DOMAIN declared
    /\ \E k \in TemplateUpdatable(a.req) : ~a.req[k].ok

\* C29: under service.py a template_update in which the assignment of a
\* field is rejected returns an error and leaves the stored Template as it
\* was.
C29_TemplateUpdateRejected ==
    [][(ver = "v2" /\ UpdateRejected(api')) =>
          /\ api'.resp.err # ""
          /\ declared' = declared]_vars

\* C27: whichever way a locale_delete of __init__.py and a create of
\* content are interleaved, every row of the content tables is of a locale
\* that exists.
C27_RaceKeepsLocales ==
    ver = "v1" => \A key \in DOMAIN rows : key[3] \in DOMAIN locales

SendOps == {"_email", "_sms"}

\* the call recorded in api has a recipient that a non-empty allowed list
\* does not hold
Blocked ==
    /\ ~api.req.cfg["allowed"].none
    /\ api.req.cfg["allowed"].items # {}
    /\ api.req.opts["to"] \notin api.req.cfg["allowed"].items

\* C25: _email and _sms return a dict with a boolean success, for every
\* input whose attachments are well formed; when the recipient is not on a
\* non-empty allowed list nothing is handed to the transport and the result
\* is still such a dict.
C25_SendReturnsDict ==
    (/\ api.op \in SendOps
     /\ ver = "v2"
     /\ ~("attachments" \in DOMAIN api.req.opts
          /\ api.req.opts["attachments"] = "malformed"))
    => /\ api.resp.result.kind = "dict"
       /\ api.resp.result.success \in BOOLEAN
       /\ Blocked => api.resp.sent = <<>>

\* C30: _email and _sms hand a message to the transport only when the
\* allowed list is unset or empty or holds the requested recipient; for
\* any other recipient nothing is handed over, whatever the override is.
C30_AllowedGatesSend ==
    api.op \in SendOps =>
        /\ api.resp.sent # <<>> => ~Blocked
        /\ Blocked => api.resp.sent = <<>>
        /\ Len(api.resp.sent) <= 1

\* cy is not on the allowed list [ann, bob]: nothing is sent, though an
\* override address is configured
C30_Witness ==
    /\ api.op = "_sms"
    /\ api.req.opts["to"] = "cy"
    /\ api.req.cfg["allowed"] = ListOf({"ann", "bob"})
    /\ "override" \in DOMAIN api.req.cfg
    /\ api.req.cfg["override"] = "dev"
    /\ api.resp.sent = <<>>

\* C26: _generate_content of __init__.py applied again, with the same
\* bindings, to the text a finished SMS render returned gives that text back;
\* so the output of an embedded template, its markers included, stands
\* unchanged in the output of the template that embeds it.
C26_ReprocessingStable ==
    \A r \in Procs :
        (/\ ver = "v1"
         /\ rnd[r].kind = "sms"
         /\ Done(r))
        => GenerateContent(ver, ResultOf(r), rnd[r].variables)
               = Ok(ResultOf(r))

====
